---- MODULE Spec2Model ----
(***************************************************************************)
(* Model of the quicksync_calc ingestion scripts: CPU classification       *)
(* against the ordered rule tables, field normalisation, the result hash   *)
(* and the insertion of records into storage.                              *)
(*                                                                         *)
(* Text is a sequence of one-character strings, so that regular            *)
(* expressions, parsing and formatting are computed character by           *)
(* character.  An optional value is a sequence of length 0 (None) or 1.    *)
(***************************************************************************)
EXTENDS Integers, Sequences, FiniteSets, TLC

\* ------------------------------------------------------------ optional values
None == <<>>
Some(v) == <<v>>
IsNone(o) == o = <<>>
Val(o) == o[1]

\* F applied to the value of e, with e evaluated once.
Bind(e, F(_)) == CHOOSE r \in {F(x) : x \in {e}} : TRUE

\* ------------------------------------------------------------ characters
Digit == {"0", "1", "2", "3", "4", "5", "6", "7", "8", "9"}
Upper == {"A", "B", "C", "D", "E", "F", "G", "H", "I", "J", "K", "L", "M",
          "N", "O", "P", "Q", "R", "S", "T", "U", "V", "W", "X", "Y", "Z"}
Whitespace == {" ", "\t", "\n", "\r"}

\* ------------------------------------------------------------ regular expressions
\* A pattern is a sequence of atoms.  An atom of kind "set" consumes between lo
\* and hi characters of cs (hi = -1: unbounded), an atom of kind "any" is the
\* same for "." (any character but a newline), and "end" is "$".
Lit(c) == [kind |-> "set", cs |-> {c}, lo |-> 1, hi |-> 1]
Cls(cs) == [kind |-> "set", cs |-> cs, lo |-> 1, hi |-> 1]
Rep(cs, n) == [kind |-> "set", cs |-> cs, lo |-> n, hi |-> n]
Opt(cs) == [kind |-> "set", cs |-> cs, lo |-> 0, hi |-> 1]
Star(cs) == [kind |-> "set", cs |-> cs, lo |-> 0, hi |-> -1]
DotStar == [kind |-> "any", cs |-> {}, lo |-> 0, hi |-> -1]
EndAnchor == [kind |-> "end", cs |-> {}, lo |-> 0, hi |-> 0]
Lits(str) == [j \in 1..Len(str) |-> Lit(str[j])]

AtomAccepts(a, c) == IF a.kind = "any" THEN c /= "\n" ELSE c \in a.cs

\* Whether atoms k.. of pat match some prefix of s[i..].
RECURSIVE MatchFrom(_, _, _, _)
MatchFrom(pat, k, s, i) ==
  IF k > Len(pat) THEN TRUE
  ELSE LET a == pat[k] IN
    IF a.kind = "end"
    THEN /\ (i = Len(s) + 1 \/ (i = Len(s) /\ s[i] = "\n"))
         /\ MatchFrom(pat, k + 1, s, i)
    ELSE \E n \in a.lo .. (IF a.hi < 0 THEN Len(s) - i + 1 ELSE a.hi) :
           /\ i + n - 1 <= Len(s)
           /\ \A j \in i .. (i + n - 1) : AtomAccepts(a, s[j])
           /\ MatchFrom(pat, k + 1, s, i + n)

\* re.search(pattern, s) is not None: the pattern matches at some position.
re_search(pat, s) == \E i \in 1 .. (Len(s) + 1) : MatchFrom(pat, 1, s, i)

\* i[3579]-<lead>  followed by the given atoms
CoreI(lead, rest) == Lits(<<"i">>) \o <<Cls({"3", "5", "7", "9"})>> \o Lits(<<"-">>) \o Lits(lead) \o rest
\* Ultra [3579] <lead>\d{2}  followed by the given atoms
UltraP(lead, rest) == Lits(<<"U", "l", "t", "r", "a", " ">>) \o <<Cls({"3", "5", "7", "9"})>> \o Lits(<<" ">>) \o Lits(lead) \o <<Rep(Digit, 2)>> \o rest

\* ------------------------------------------------------------ the rule patterns
P_SandyBridge == CoreI(<<"2">>, <<Rep(Digit, 3)>>)
P_IvyBridge == CoreI(<<"3">>, <<Rep(Digit, 3)>>)
P_Haswell == CoreI(<<"4">>, <<Rep(Digit, 3)>>)
P_Broadwell == CoreI(<<"5">>, <<Rep(Digit, 3)>>)
P_Skylake == CoreI(<<"6">>, <<Rep(Digit, 3)>>)
P_KabyLake == CoreI(<<"7">>, <<Rep(Digit, 3)>>)
P_CoffeeLake == CoreI(<<"8">>, <<Rep(Digit, 3)>>)
P_CoffeeLakeRefresh == CoreI(<<"9">>, <<Rep(Digit, 3)>>)
\* migrate: i[3579]-10\d{3}      backfill: i[3579]-10\d{3}[A-Z]?$
P_CometLake == CoreI(<<"1", "0">>, <<Rep(Digit, 3)>>)
P_CometLakeAnchored == CoreI(<<"1", "0">>, <<Rep(Digit, 3), Opt(Upper), EndAnchor>>)
\* The Ice Lake pattern without its "G": the variant C2 tells from P_IceLake.
P_IceLake_without_suffix == CoreI(<<"1", "0">>, <<Rep(Digit, 2)>>)
P_IceLake == CoreI(<<"1", "0">>, <<Rep(Digit, 2), Lit("G")>>)
P_TigerLake == CoreI(<<"1", "1">>, <<Rep(Digit, 2), Lit("G")>>)
P_RocketLake == CoreI(<<"1", "1">>, <<Rep(Digit, 3)>>)
P_AlderLake == CoreI(<<"1", "2">>, <<Rep(Digit, 3)>>)
P_RaptorLake == CoreI(<<"1", "3">>, <<Rep(Digit, 3)>>)
P_RaptorLakeRefresh == CoreI(<<"1", "4">>, <<Rep(Digit, 3)>>)
\* migrate: Ultra [3579] 1\d{2}  backfill: Ultra [3579] 1\d{2}[HUP]?
P_MeteorLake == UltraP(<<"1">>, <<>>)
P_MeteorLakeHUP == UltraP(<<"1">>, <<Opt({"H", "U", "P"})>>)
P_ArrowLake == UltraP(<<"2">>, <<Cls({"K", "F", "S"})>>)
P_LunarLake == UltraP(<<"2">>, <<Cls({"V", "U"})>>)
\* Xeon.*E3-\d{4}\s*v<n>
XeonE3v(n) == Lits(<<"X", "e", "o", "n">>) \o <<DotStar>> \o Lits(<<"E", "3", "-">>) \o <<Rep(Digit, 4), Star(Whitespace)>> \o Lits(<<"v">>) \o Lits(n)
P_XeonE3 == Lits(<<"X", "e", "o", "n">>) \o <<DotStar>> \o Lits(<<"E", "3", "-", "1">>) \o <<Cls({"2", "3"}), Rep(Digit, 2)>>
P_XeonE == Lits(<<"X", "e", "o", "n">>) \o <<DotStar>> \o Lits(<<"E", "-", "2">>) \o <<Cls({"1", "2", "3"}), Rep(Digit, 2)>>
P_EStandalone == Lits(<<"E", "-", "2">>) \o <<Cls({"1", "2", "3"}), Rep(Digit, 2), Opt({"G"})>>
P_PentiumGold == Lits(<<"P", "e", "n", "t", "i", "u", "m">>) \o <<DotStar>> \o Lits(<<"G">>) \o <<Cls({"5", "6", "7"}), Rep(Digit, 3)>>
P_G4 == Lits(<<"G", "4">>) \o <<Rep(Digit, 3), Opt({"T"})>>
P_Celeron == Lits(<<"C", "e", "l", "e", "r", "o", "n">>) \o <<DotStar>> \o Lits(<<"G">>) \o <<Cls({"4", "5", "6", "7"}), Rep(Digit, 3)>>
P_JasperLake == Lits(<<"N">>) \o <<Cls({"4", "5", "6"}), Rep(Digit, 3)>>
P_AlderLakeN == Lits(<<"N">>) \o <<Cls({"1", "2"}), Rep(Digit, 2)>>
P_AlderLakeN2 == Lits(<<"N">>) \o <<Rep(Digit, 2), EndAnchor>>
P_i3N == Lits(<<"i", "3", "-", "N">>) \o <<Rep(Digit, 3)>>
P_GeminiLakeJ == Lits(<<"J">>) \o <<Cls({"4", "5", "6"}), Rep(Digit, 3)>>
P_AmberLake == Lits(<<"m", "3", "-">>) \o <<Rep(Digit, 4)>> \o Lits(<<"Y">>)
P_CoreM == Lits(<<"M", "-", "5", "Y">>) \o <<Rep(Digit, 2)>>
P_PentiumSilver == Lits(<<"P", "e", "n", "t", "i", "u", "m">>) \o <<DotStar>> \o Lits(<<"S", "i", "l", "v", "e", "r">>)
P_SilverDigits == Lits(<<"S", "i", "l", "v", "e", "r">>) \o <<DotStar, Rep(Digit, 4)>>
P_Arc == Lits(<<"A", "r", "c", " ", "A">>) \o <<Rep(Digit, 3)>>
P_ProcessorN == Lits(<<"P", "r", "o", "c", "e", "s", "s", "o", "r", " ", "N">>) \o <<Rep(Digit, 3)>>

\* ------------------------------------------------------------ migrate-gist-data.py
CPUArchitecture(arch, codename, year, sort_order) ==
  [architecture |-> arch, codename |-> codename, release_year |-> year, sort_order |-> sort_order]

MRule(p, arch, codename, year, sort_order) ==
  [pattern |-> p, architecture |-> arch, codename |-> codename, release_year |-> year, sort_order |-> sort_order]

CPU_PATTERNS == <<
  MRule(P_SandyBridge, "Sandy Bridge", "SNB", 2011, 20),
  MRule(P_IvyBridge, "Ivy Bridge", "IVB", 2012, 30),
  MRule(P_Haswell, "Haswell", "HSW", 2013, 40),
  MRule(P_Broadwell, "Broadwell", "BDW", 2014, 50),
  MRule(P_Skylake, "Skylake", "SKL", 2015, 60),
  MRule(P_KabyLake, "Kaby Lake", "KBL", 2017, 70),
  MRule(P_CoffeeLake, "Coffee Lake", "CFL", 2018, 80),
  MRule(P_CoffeeLakeRefresh, "Coffee Lake Refresh", "CFL-R", 2019, 90),
  MRule(P_CometLake, "Comet Lake", "CML", 2020, 100),
  MRule(P_IceLake, "Ice Lake", "ICL", 2019, 95),
  MRule(P_TigerLake, "Tiger Lake", "TGL", 2020, 105),
  MRule(P_RocketLake, "Rocket Lake", "RKL", 2021, 110),
  MRule(P_AlderLake, "Alder Lake", "ADL", 2021, 120),
  MRule(P_RaptorLake, "Raptor Lake", "RPL", 2022, 130),
  MRule(P_RaptorLakeRefresh, "Raptor Lake Refresh", "RPL-R", 2023, 140),
  MRule(P_MeteorLake, "Meteor Lake", "MTL", 2023, 150),
  MRule(P_ArrowLake, "Arrow Lake", "ARL", 2024, 200),
  MRule(P_LunarLake, "Lunar Lake", "LNL", 2024, 210),
  MRule(P_XeonE3, "Xeon E3", "Various", 2015, 55),
  MRule(P_XeonE, "Xeon E", "CFL", 2018, 85),
  MRule(P_PentiumGold, "Pentium Gold", "CFL", 2018, 82),
  MRule(P_Celeron, "Celeron", "Various", 2017, 65),
  MRule(P_AlderLakeN, "Alder Lake-N", "ADL-N", 2023, 125) >>

\* The loop of lookup_architecture from rule k on.
RECURSIVE lookup_from(_, _)
lookup_from(k, cpu_raw) ==
  IF k > Len(CPU_PATTERNS) THEN None
  ELSE IF re_search(CPU_PATTERNS[k].pattern, cpu_raw)
       THEN Some(CPUArchitecture(CPU_PATTERNS[k].architecture, CPU_PATTERNS[k].codename,
                                 CPU_PATTERNS[k].release_year, CPU_PATTERNS[k].sort_order))
       ELSE lookup_from(k + 1, cpu_raw)

\* Variants of lookup_architecture that C1 and C4 tell from it: the last
\* matching rule wins, and a label no rule matches gets a made-up architecture.
lookup_architecture_last_match(cpu_raw) ==
  LET M == {k \in 1..Len(CPU_PATTERNS) : re_search(CPU_PATTERNS[k].pattern, cpu_raw)}
      last == CHOOSE k \in M : \A j \in M : j <= k
  IN IF M = {} THEN None
     ELSE Some(CPUArchitecture(CPU_PATTERNS[last].architecture, CPU_PATTERNS[last].codename,
                               CPU_PATTERNS[last].release_year, CPU_PATTERNS[last].sort_order))
lookup_architecture_with_default(cpu_raw) ==
  IF lookup_from(1, cpu_raw) = None THEN Some(CPUArchitecture("Unknown", "Various", 2000, 0))
  ELSE lookup_from(1, cpu_raw)

lookup_architecture(cpu_raw) == lookup_from(1, cpu_raw)

\* ------------------------------------------------------------ backfill-architectures.py
BRule(p, arch, gen) == [pattern |-> p, architecture |-> arch, generation |-> gen]

BACKFILL_CPU_PATTERNS == <<
  BRule(P_SandyBridge, "Sandy Bridge", Some(2)),
  BRule(P_IvyBridge, "Ivy Bridge", Some(3)),
  BRule(P_Haswell, "Haswell", Some(4)),
  BRule(P_Broadwell, "Broadwell", Some(5)),
  BRule(P_Skylake, "Skylake", Some(6)),
  BRule(P_KabyLake, "Kaby Lake", Some(7)),
  BRule(P_CoffeeLake, "Coffee Lake", Some(8)),
  BRule(P_CoffeeLakeRefresh, "Coffee Lake Refresh", Some(9)),
  BRule(P_IceLake, "Ice Lake", Some(10)),
  BRule(P_CometLakeAnchored, "Comet Lake", Some(10)),
  BRule(P_TigerLake, "Tiger Lake", Some(11)),
  BRule(P_RocketLake, "Rocket Lake", Some(11)),
  BRule(P_AlderLake, "Alder Lake", Some(12)),
  BRule(P_RaptorLake, "Raptor Lake", Some(13)),
  BRule(P_RaptorLakeRefresh, "Raptor Lake Refresh", Some(14)),
  BRule(P_MeteorLakeHUP, "Meteor Lake", Some(1)),
  BRule(P_ArrowLake, "Arrow Lake", Some(2)),
  BRule(P_LunarLake, "Lunar Lake", Some(2)),
  BRule(XeonE3v(<<"6">>), "Kaby Lake", Some(7)),
  BRule(XeonE3v(<<"5">>), "Skylake", Some(6)),
  BRule(XeonE3v(<<"4">>), "Broadwell", Some(5)),
  BRule(XeonE3v(<<"3">>), "Haswell", Some(4)),
  BRule(P_XeonE3, "Xeon E3", None),
  BRule(P_XeonE, "Xeon E", Some(8)),
  BRule(P_EStandalone, "Xeon E", Some(8)),
  BRule(P_PentiumGold, "Pentium Gold", Some(8)),
  BRule(P_G4, "Coffee Lake", Some(8)),
  BRule(P_Celeron, "Celeron", None),
  BRule(P_JasperLake, "Jasper Lake", None),
  BRule(P_AlderLakeN, "Alder Lake-N", Some(12)),
  BRule(P_AlderLakeN2, "Alder Lake-N", Some(12)),
  BRule(P_i3N, "Alder Lake-N", Some(12)),
  BRule(P_GeminiLakeJ, "Gemini Lake", None),
  BRule(P_AmberLake, "Amber Lake", Some(8)),
  BRule(P_CoreM, "Broadwell", Some(5)),
  BRule(P_PentiumSilver, "Gemini Lake", None),
  BRule(P_SilverDigits, "Gemini Lake", None),
  BRule(P_Arc, "Arc Alchemist", None),
  BRule(P_ProcessorN, "Alder Lake-N", Some(12)) >>

\* The loop of parse_cpu from rule k on; the result is (architecture, generation).
RECURSIVE parse_cpu_from(_, _)
parse_cpu_from(k, cpu_raw) ==
  IF k > Len(BACKFILL_CPU_PATTERNS) THEN [architecture |-> None, generation |-> None]
  ELSE IF re_search(BACKFILL_CPU_PATTERNS[k].pattern, cpu_raw)
       THEN [architecture |-> Some(BACKFILL_CPU_PATTERNS[k].architecture),
             generation |-> BACKFILL_CPU_PATTERNS[k].generation]
       ELSE parse_cpu_from(k + 1, cpu_raw)

parse_cpu(cpu_raw) == parse_cpu_from(1, cpu_raw)

\* ------------------------------------------------------------ text helpers
Min(S) == CHOOSE p \in S : \A q \in S : p <= q
\* Whether sub occurs in s at position p.
OccursAt(s, sub, p) == p + Len(sub) - 1 <= Len(s) /\ SubSeq(s, p, p + Len(sub) - 1) = sub
Drop(s, n) == SubSeq(s, n + 1, Len(s))

\* str.strip(): leading and trailing whitespace removed.
RECURSIVE LStrip(_)
LStrip(s) == IF s /= <<>> /\ s[1] \in Whitespace THEN LStrip(Tail(s)) ELSE s
RECURSIVE RStrip(_)
RStrip(s) == IF s /= <<>> /\ s[Len(s)] \in Whitespace THEN RStrip(SubSeq(s, 1, Len(s) - 1)) ELSE s
Strip(s) == RStrip(LStrip(s))

\* str.rstrip('x'): trailing characters of cs removed.
RECURSIVE RStripChars(_, _)
RStripChars(s, cs) == IF s /= <<>> /\ s[Len(s)] \in cs THEN RStripChars(SubSeq(s, 1, Len(s) - 1), cs) ELSE s

\* str.replace(sub, ''): every occurrence of sub removed, left to right.
RECURSIVE Remove(_, _)
Remove(s, sub) ==
  IF s = <<>> THEN <<>>
  ELSE IF OccursAt(s, sub, 1) THEN Remove(Drop(s, Len(sub)), sub)
  ELSE <<s[1]>> \o Remove(Tail(s), sub)

UpperSeq == <<"A", "B", "C", "D", "E", "F", "G", "H", "I", "J", "K", "L", "M", "N", "O", "P", "Q", "R", "S", "T", "U", "V", "W", "X", "Y", "Z">>
LowerSeq == <<"a", "b", "c", "d", "e", "f", "g", "h", "i", "j", "k", "l", "m", "n", "o", "p", "q", "r", "s", "t", "u", "v", "w", "x", "y", "z">>
LowerChar(c) == IF c \in Upper THEN LowerSeq[CHOOSE j \in 1..26 : UpperSeq[j] = c] ELSE c
UpperChar(c) == IF \E j \in 1..26 : LowerSeq[j] = c THEN UpperSeq[CHOOSE j \in 1..26 : LowerSeq[j] = c] ELSE c
\* str.lower() and str.upper()
Lower(s) == [j \in 1..Len(s) |-> LowerChar(s[j])]
UpperStr(s) == [j \in 1..Len(s) |-> UpperChar(s[j])]

\* ------------------------------------------------------------ numbers
DigitSeq == <<"0", "1", "2", "3", "4", "5", "6", "7", "8", "9">>
DigitVal(c) == (CHOOSE j \in 1..10 : DigitSeq[j] = c) - 1
AllDigits(s) == \A j \in 1..Len(s) : s[j] \in Digit
\* The number the first n characters of s write in decimal.
RECURSIVE DigitsValTo(_, _)
DigitsValTo(s, n) == IF n = 0 THEN 0 ELSE 10 * DigitsValTo(s, n - 1) + DigitVal(s[n])
DigitsVal(s) == Bind(s, LAMBDA t : DigitsValTo(t, Len(t)))
RECURSIVE NatStr(_)
NatStr(n) == IF n < 10 THEN <<DigitSeq[n + 1]>> ELSE NatStr(n \div 10) \o <<DigitSeq[(n % 10) + 1]>>
\* f"{n}" of an int
IntStr(n) == IF n < 0 THEN <<"-">> \o NatStr(0 - n) ELSE NatStr(n)
RECURSIVE Pow10(_)
Pow10(k) == IF k = 0 THEN 1 ELSE 10 * Pow10(k - 1)
RECURSIVE Gcd(_, _)
Gcd(a, b) == IF b = 0 THEN a ELSE Bind(a % b, LAMBDA r : Gcd(b, r))

HasSign(s) == s /= <<>> /\ s[1] \in {"+", "-"}
Unsigned(s) == IF HasSign(s) THEN Tail(s) ELSE s

\* int(text): surrounding whitespace, an optional sign, decimal digits; None
\* stands for the ValueError.
ParseInt(text) ==
  Bind(Strip(text), LAMBDA t :
    Bind(Unsigned(t), LAMBDA body :
      IF body /= <<>> /\ AllDigits(body)
      THEN Some(IF HasSign(t) /\ t[1] = "-" THEN 0 - DigitsVal(body) ELSE DigitsVal(body))
      ELSE None))

\* A float is nan, an infinity, or the decimal (-1)^neg * m / 10^k with m not
\* ending in 0 unless k = 0: the value Python's float() reads from a decimal
\* literal and repr() writes back (texts of at most 15 significant digits).
NaN == [kind |-> "nan", neg |-> FALSE, m |-> 0, k |-> 0]
Inf(neg) == [kind |-> "inf", neg |-> neg, m |-> 0, k |-> 0]
RECURSIVE Fin(_, _, _)
Fin(neg, m, k) ==
  IF k > 0 /\ m % 10 = 0 THEN Fin(neg, m \div 10, k - 1)
  ELSE [kind |-> "fin", neg |-> neg, m |-> m, k |-> k]

\* float(text): surrounding whitespace, an optional sign, then nan, inf or
\* infinity in any case, or digits with an optional fraction; None stands for
\* the ValueError.
ParseFloat(text) ==
  Bind(Strip(text), LAMBDA t :
    Bind(Unsigned(t), LAMBDA body :
      LET neg == HasSign(t) /\ t[1] = "-"
          low == Lower(body)
          dots == {j \in 1..Len(body) : body[j] = "."}
          dot == IF dots = {} THEN Len(body) + 1 ELSE Min(dots)
          ip == SubSeq(body, 1, dot - 1)
          fp == SubSeq(body, dot + 1, Len(body))
      IN IF low = <<"n", "a", "n">> THEN Some(NaN)
         ELSE IF low = <<"i", "n", "f">> \/ low = <<"i", "n", "f", "i", "n", "i", "t", "y">> THEN Some(Inf(neg))
         ELSE IF AllDigits(ip) /\ AllDigits(fp) /\ Len(ip) + Len(fp) > 0
              THEN Some(Fin(neg, DigitsVal(ip \o fp), Len(fp)))
              ELSE None))

\* f"{x}" of a float: repr(x).
FloatStr(x) ==
  IF x.kind = "nan" THEN <<"n", "a", "n">>
  ELSE IF x.kind = "inf" THEN (IF x.neg THEN <<"-", "i", "n", "f">> ELSE <<"i", "n", "f">>)
  ELSE Bind(NatStr(x.m), LAMBDA ds :
         Bind(IF Len(ds) <= x.k THEN [j \in 1..(x.k + 1 - Len(ds)) |-> "0"] \o ds ELSE ds, LAMBDA pad :
           LET cut == Len(pad) - x.k
           IN (IF x.neg THEN <<"-">> ELSE <<>>) \o SubSeq(pad, 1, cut) \o <<".">>
                \o (IF x.k = 0 THEN <<"0">> ELSE SubSeq(pad, cut + 1, Len(pad)))))

\* x <= 0, x > bound and x < bound of a float and an integer bound >= 0; every
\* comparison with nan is false.
FloatLeqZero(x) == IF x.kind = "nan" THEN FALSE ELSE IF x.kind = "inf" THEN x.neg ELSE x.neg \/ x.m = 0
FloatGtInt(x, bound) ==
  IF x.kind = "nan" THEN FALSE
  ELSE IF x.kind = "inf" THEN ~x.neg
  ELSE ~x.neg /\ x.m > bound * Pow10(x.k)
FloatGtZero(x) == FloatGtInt(x, 0)
\* bool(x) of a float: false for 0.0 and -0.0 only.
FloatTruthy(x) == ~(x.kind = "fin" /\ x.m = 0)

\* a / b for floats with b finite and b > 0: nan and the infinities propagate,
\* a finite quotient is the exact ratio num/den in lowest terms.
FloatDiv(a, b) ==
  IF a.kind /= "fin" THEN [kind |-> a.kind, neg |-> a.neg, num |-> 0, den |-> 1]
  ELSE Bind(a.m * Pow10(b.k), LAMBDA n :
         Bind(b.m * Pow10(a.k), LAMBDA d :
           Bind(Gcd(n, d), LAMBDA g :
             [kind |-> "fin", neg |-> a.neg /\ n /= 0, num |-> n \div g, den |-> d \div g])))

\* ------------------------------------------------------------ parse_cpu_info
\* The match of (i[3579]|Ultra [3579]) at position p, or None.
BrandAt(s, p) ==
  IF OccursAt(s, <<"i">>, p) /\ p + 1 <= Len(s) /\ s[p + 1] \in {"3", "5", "7", "9"}
  THEN Some(SubSeq(s, p, p + 1))
  ELSE IF OccursAt(s, <<"U", "l", "t", "r", "a", " ">>, p) /\ p + 6 <= Len(s) /\ s[p + 6] \in {"3", "5", "7", "9"}
       THEN Some(SubSeq(s, p, p + 6))
       ELSE None

\* The end of the longest run of characters of cs that starts at position p
\* (p - 1 when s[p] is not in cs).
RECURSIVE RunEnd(_, _, _)
RunEnd(s, p, cs) == IF p <= Len(s) /\ s[p] \in cs THEN RunEnd(s, p + 1, cs) ELSE p - 1

\* The end of the lazy (.*?) that starts at position p and stops before the
\* first whitespace character or at the end of the string.
RECURSIVE LazyEnd(_, _)
LazyEnd(s, p) == IF p <= Len(s) /\ s[p] \notin Whitespace THEN LazyEnd(s, p + 1) ELSE p - 1

\* The model number: group 2 of (i\d)-(.*?)(?:\s|$), stripped, else group 1 of
\* Ultra \d (\d+[A-Z]?), else None.
cpu_model_of(cpu_raw) ==
  LET iPos == {p \in 1..Len(cpu_raw) :
                 /\ p + 2 <= Len(cpu_raw)
                 /\ cpu_raw[p] = "i" /\ cpu_raw[p + 1] \in Digit /\ cpu_raw[p + 2] = "-"}
      uPos == {p \in 1..Len(cpu_raw) :
                 /\ OccursAt(cpu_raw, <<"U", "l", "t", "r", "a", " ">>, p)
                 /\ p + 8 <= Len(cpu_raw)
                 /\ cpu_raw[p + 6] \in Digit /\ cpu_raw[p + 7] = " " /\ cpu_raw[p + 8] \in Digit}
  IN IF iPos /= {}
     THEN Bind(Min(iPos), LAMBDA p : Some(Strip(SubSeq(cpu_raw, p + 3, LazyEnd(cpu_raw, p + 3)))))
     ELSE IF uPos /= {}
          THEN Bind(Min(uPos), LAMBDA p :
                 Bind(RunEnd(cpu_raw, p + 8, Digit), LAMBDA e :
                   Some(SubSeq(cpu_raw, p + 8, IF e + 1 <= Len(cpu_raw) /\ cpu_raw[e + 1] \in Upper THEN e + 1 ELSE e))))
          ELSE None

\* df['CPU'].str.extract("(i\d)-(.*)") of munging in analysis.py: the text after
\* the first "i<digit>-", to the end of the label.
munging_model_of(cpu) ==
  LET iPos == {p \in 1..Len(cpu) :
                 /\ p + 2 <= Len(cpu)
                 /\ cpu[p] = "i" /\ cpu[p + 1] \in Digit /\ cpu[p + 2] = "-"}
  IN IF iPos = {} THEN None ELSE Some(Drop(cpu, Min(iPos) + 2))

\* A generation that is the first digit of the run whatever its length: the
\* variant C24 tells from generation_of.
generation_of_first_digit(model) ==
  Bind(IF model = None THEN <<>> ELSE Val(model), LAMBDA m :
    LET gPos == {p \in 1..Len(m) : p + 3 <= Len(m) /\ AllDigits(SubSeq(m, p, p + 3))}
    IN IF gPos = {} THEN None ELSE Some(DigitsVal(<<m[Min(gPos)]>>)))

\* The generation: the match of (\d{4,5}) in the model (the leftmost run of four
\* digits, extended to five if it can be) without its last three digits.
generation_of(model) ==
  Bind(IF model = None THEN <<>> ELSE Val(model), LAMBDA m :
    LET gPos == {p \in 1..Len(m) : p + 3 <= Len(m) /\ AllDigits(SubSeq(m, p, p + 3))}
    IN IF gPos = {} THEN None
       ELSE Bind(Min(gPos), LAMBDA p :
              Bind(SubSeq(m, p, IF p + 4 <= Len(m) /\ m[p + 4] \in Digit THEN p + 4 ELSE p + 3), LAMBDA gen_str :
                IF Len(gen_str) >= 4 THEN Some(DigitsVal(SubSeq(gen_str, 1, Len(gen_str) - 3))) ELSE None)))

parse_cpu_info(cpu_raw) ==
  LET brandPos == {p \in 1..Len(cpu_raw) : BrandAt(cpu_raw, p) /= None}
      brand == IF brandPos = {} THEN None ELSE BrandAt(cpu_raw, Min(brandPos))
  IN Bind(cpu_model_of(cpu_raw), LAMBDA model :
       [brand |-> brand, model |-> model, generation |-> generation_of(model)])

\* ------------------------------------------------------------ result hash
\* f"{v}" of an optional float: "None" or repr(v).
OptFloatStr(o) == IF o = None THEN <<"N", "o", "n", "e">> ELSE FloatStr(Val(o))

\* hashlib.sha256(...).hexdigest(), taken as a collision-free digest: the
\* digest is identified with the text it was computed from.
sha256_hexdigest(text) == [sha256_of |-> text]

\* Variants of hash_input that C7 and C8 tell from it: the submitter is hashed
\* too, and avg_watts is left out.
hash_input_with_submitter(row) ==
  (IF row.submitter_id = None THEN <<"N", "o", "n", "e">> ELSE <<Val(row.submitter_id)>>) \o <<"|">>
    \o row.cpu_raw \o <<"|">> \o row.test_name \o <<"|">> \o row.test_file \o <<"|">>
    \o IntStr(row.bitrate_kbps) \o <<"|">> \o FloatStr(row.avg_fps) \o <<"|">> \o OptFloatStr(row.avg_watts)
hash_input_without_watts(row) ==
  row.cpu_raw \o <<"|">> \o row.test_name \o <<"|">> \o row.test_file \o <<"|">>
    \o IntStr(row.bitrate_kbps) \o <<"|">> \o FloatStr(row.avg_fps)

hash_input(row) ==
  row.cpu_raw \o <<"|">> \o row.test_name \o <<"|">> \o row.test_file \o <<"|">>
    \o IntStr(row.bitrate_kbps) \o <<"|">> \o FloatStr(row.avg_fps) \o <<"|">> \o OptFloatStr(row.avg_watts)

generate_result_hash(row) == sha256_hexdigest(hash_input(row))

\* ------------------------------------------------------------ process_dataframe
MAX_WATTS == 500

\* "Parse avg_watts": the normalisation of the AVG_WATTS cell.
normalize_watts(cell) ==
  Bind(Strip(cell), LAMBDA watts_str :
    IF watts_str /= <<>> /\ UpperStr(watts_str) /= <<"N", "/", "A">> /\ Lower(watts_str) /= <<"n", "a", "n">>
    THEN Bind(ParseFloat(watts_str), LAMBDA avg_watts :
           IF avg_watts = None THEN None
           ELSE IF FloatLeqZero(Val(avg_watts)) \/ FloatGtInt(Val(avg_watts), MAX_WATTS) THEN None
           ELSE avg_watts)
    ELSE None)

\* "Compute fps_per_watt"
compute_fps_per_watt(avg_fps, avg_watts) ==
  IF avg_watts /= None /\ FloatTruthy(Val(avg_watts)) /\ FloatGtZero(Val(avg_watts))
  THEN Some(FloatDiv(avg_fps, Val(avg_watts)))
  ELSE None

\* The cells of a row as process_dataframe parses them; None stands for the
\* ValueError of int() or float().
parse_cells(row) ==
  LET speed_str == Strip(row.AVG_SPEED)
      speed_given == speed_str /= <<>> /\ speed_str /= <<"x">> /\ Lower(speed_str) /= <<"n", "a", "n">>
  IN [cpu_raw |-> Strip(row.CPU),
      bitrate_kbps |-> ParseInt(Strip(Remove(Strip(row.BITRATE), <<"k", "b", "/", "s">>))),
      time_seconds |-> ParseFloat(Strip(Remove(Strip(row.TIME), <<"s">>))),
      avg_fps |-> ParseFloat(Strip(row.AVG_FPS)),
      speed_given |-> speed_given,
      avg_speed |-> IF speed_given THEN ParseFloat(RStripChars(speed_str, {"x"})) ELSE None,
      avg_watts |-> normalize_watts(row.AVG_WATTS)]

\* The body of the loop of process_dataframe for one row: the record appended,
\* or None when a ValueError makes the loop skip the row.
process_row(row, include_github_user) ==
  Bind(parse_cells(row), LAMBDA c :
    IF c.bitrate_kbps = None \/ c.time_seconds = None \/ c.avg_fps = None
         \/ (c.speed_given /\ c.avg_speed = None)
    THEN None
    ELSE Bind(parse_cpu_info(c.cpu_raw), LAMBDA info :
         Bind(lookup_architecture(c.cpu_raw), LAMBDA arch_info :
         Bind([submitter_id |-> IF include_github_user THEN Some(row.user) ELSE None,
               cpu_raw |-> c.cpu_raw,
               cpu_brand |-> info.brand,
               cpu_model |-> info.model,
               cpu_generation |-> info.generation,
               architecture |-> IF arch_info /= None THEN Some(Val(arch_info).architecture) ELSE None,
               test_name |-> row.TEST,
               test_file |-> row.FILE,
               bitrate_kbps |-> Val(c.bitrate_kbps),
               time_seconds |-> Val(c.time_seconds),
               avg_fps |-> Val(c.avg_fps),
               avg_speed |-> c.avg_speed,
               avg_watts |-> c.avg_watts,
               fps_per_watt |-> compute_fps_per_watt(Val(c.avg_fps), c.avg_watts),
               vendor |-> "intel"], LAMBDA record :
           Some([f \in DOMAIN record \cup {"result_hash"} |->
                   IF f = "result_hash" THEN generate_result_hash(record) ELSE record[f]])))))

\* ------------------------------------------------------------ backfill-submitter-id.py
\* The dictionary extract_results_with_users appends for one row of an accepted
\* table, or None when int() or float() raises.
extract_row_with_user(row) ==
  Bind(ParseInt(Strip(Remove(row.BITRATE, <<"k", "b", "/", "s">>))), LAMBDA bitrate_kbps :
    Bind(ParseFloat(row.AVG_FPS), LAMBDA avg_fps :
      IF bitrate_kbps = None \/ avg_fps = None THEN None
      ELSE Some([username |-> row.user,
                 cpu_raw |-> Strip(row.CPU),
                 test_name |-> row.TEST,
                 test_file |-> row.FILE,
                 bitrate_kbps |-> Val(bitrate_kbps),
                 avg_fps |-> Val(avg_fps),
                 avg_watts |-> row.AVG_WATTS])))

\* generate_result_hash of backfill-submitter-id.py: its own watts
\* normalisation, then the same hashed text.
\* backfill_normalize_watts without the plausibility filter: the variant C9
\* tells from it.
backfill_watts_unfiltered(cell) ==
  Bind(Strip(cell), LAMBDA watts_str :
    IF watts_str /= <<>> /\ UpperStr(watts_str) /= <<"N", "/", "A">> /\ Lower(watts_str) /= <<"n", "a", "n">>
    THEN ParseFloat(watts_str)
    ELSE None)

backfill_normalize_watts(cell) ==
  Bind(Strip(cell), LAMBDA watts_str :
    IF watts_str /= <<>> /\ UpperStr(watts_str) /= <<"N", "/", "A">> /\ Lower(watts_str) /= <<"n", "a", "n">>
    THEN Bind(ParseFloat(watts_str), LAMBDA avg_watts :
           IF avg_watts = None THEN None
           ELSE IF FloatLeqZero(Val(avg_watts)) \/ FloatGtInt(Val(avg_watts), MAX_WATTS) THEN None
           ELSE avg_watts)
    ELSE None)

backfill_generate_result_hash(result) ==
  sha256_hexdigest(
    result.cpu_raw \o <<"|">> \o result.test_name \o <<"|">> \o result.test_file \o <<"|">>
      \o IntStr(result.bitrate_kbps) \o <<"|">> \o FloatStr(result.avg_fps) \o <<"|">>
      \o OptFloatStr(backfill_normalize_watts(result.avg_watts)))

\* ------------------------------------------------------------ inputs
\* CPU labels: an optional leading text, a family, a model number, a suffix and
\* an optional trailing text, and the labels the specification names.
LabelPrefix == {<<>>, <<"I", "n", "t", "e", "l", " ">>, <<"i", "5", "-", "8", "5", "0", "0", " ", "+", " ">>}
LabelFamily == {<<"i", "7", "-">>, <<"i", "3", "-", "N">>, <<"U", "l", "t", "r", "a", " ", "7", " ">>, <<"X", "e", "o", "n", " ", "E", "3", "-">>, <<"E", "-">>, <<"P", "e", "n", "t", "i", "u", "m", " ", "G">>, <<"C", "e", "l", "e", "r", "o", "n", " ", "G">>,
                <<"C", "e", "l", "e", "r", "o", "n", " ", "N">>, <<"N">>, <<"m", "3", "-">>, <<"A", "r", "c", " ", "A">>}
LabelNumber == {<<"9", "5">>, <<"1", "0", "0">>, <<"1", "5", "5">>, <<"2", "6", "5">>, <<"9", "2", "0">>, <<"1", "0", "6", "5">>, <<"1", "1", "6", "5">>, <<"1", "2", "3", "0">>, <<"1", "2", "6", "0">>, <<"2", "1", "4", "6">>,
                <<"4", "9", "0", "0">>, <<"5", "4", "0", "0">>, <<"8", "5", "0", "0">>, <<"1", "0", "7", "0", "0">>, <<"1", "1", "7", "0", "0">>}
LabelSuffix == {<<>>, <<"K">>, <<"G", "7">>, <<"T">>, <<" ", "v", "5">>, <<"Y">>}
LabelTrailer == {<<>>, <<" ", "C", "P", "U">>}
NamedLabels == {<<"i", "7", "-", "1", "0", "7", "0", "0", "K">>, <<"i", "5", "-", "8", "5", "0", "0">>, <<"I", "n", "t", "e", "l", "(", "R", ")", " ", "C", "o", "r", "e", "(", "T", "M", ")", " ", "i", "7", "-", "1", "0", "7", "0", "0", "K", " ", "C", "P", "U", " ", "@", " ", "3", ".", "8", "0", "G", "H", "z">>, <<" ", "N", "9", "5", " ">>,
                <<"i", "7", "-", "1", "0", "6", "5", "G", "7", " ", "i", "7", "-", "1", "0", "7", "0", "0">>, <<"R", "y", "z", "e", "n", " ", "7", " ", "5", "8", "0", "0", "X">>}
Labels == NamedLabels \cup
  {p \o f \o n \o s \o t : p \in LabelPrefix, f \in LabelFamily, n \in LabelNumber, s \in LabelSuffix, t \in LabelTrailer}

\* AVG_WATTS cells: signed decimals around the limits of the plausibility
\* filter, and the texts that are not decimals.
WattsSign == {<<>>, <<"-">>, <<"+">>}
WattsInt == {<<"0">>, <<"2">>, <<"4", "5">>, <<"5", "0", "0">>, <<"5", "0", "1">>}
WattsFrac == {<<>>, <<".", "0">>, <<".", "2">>, <<".", "0", "1">>}
WattsOther == {<<"N", "/", "A">>, <<"n", "/", "a">>, <<>>, <<"n", "a", "n">>, <<"N", "a", "N">>, <<"+", "n", "a", "n">>, <<"-", "n", "a", "n">>, <<"i", "n", "f">>, <<"-", "i", "n", "f">>, <<"a", "b", "c">>, <<" ", "7", ".", "6", " ">>, <<".">>}
WattsTexts == WattsOther \cup {g \o i \o f : g \in WattsSign, i \in WattsInt, f \in WattsFrac}

BaseRow == [CPU |-> <<"i", "5", "-", "8", "5", "0", "0">>, TEST |-> <<"h", "2", "6", "4">>, FILE |-> <<"r", "i", "b">>, BITRATE |-> <<"1", "8", "9", "5", "2", "k", "b", "/", "s">>,
            TIME |-> <<"5", "9", ".", "6", "s">>, AVG_FPS |-> <<"5", "8", ".", "0", "3">>, AVG_SPEED |-> <<"2", ".", "0", "5", "x">>, AVG_WATTS |-> <<"7", ".", "6">>,
            user |-> "alice"]
FpsTexts == {<<"5", "8", ".", "0", "3">>, <<"1", "2", "0">>, <<"0">>, <<"n", "a", "n">>, <<"f", "a", "s", "t">>, <<>>}
BitrateTexts == {<<"1", "8", "9", "5", "2", "k", "b", "/", "s">>, <<"9", "0", "0", "0">>, <<" ", "9", "0", "0", "0", " ", "k", "b", "/", "s">>, <<"3", "0", ".", "5", "k", "b", "/", "s">>, <<"k", "b", "/", "s">>}
TimeTexts == {<<"5", "9", ".", "6", "s">>, <<"1", "2">>, <<"s", "l", "o", "w">>}
SpeedTexts == {<<"2", ".", "0", "5", "x">>, <<"x">>, <<"n", "a", "n">>, <<"f", "a", "s", "t">>, <<>>}

\* The rows a single-row run draws from: every label and every AVG_WATTS cell
\* with two AVG_FPS cells, and every other cell varied on its own.
WideRows ==
  {[BaseRow EXCEPT !.CPU = l] : l \in Labels}
    \cup {[BaseRow EXCEPT !.AVG_WATTS = w, !.AVG_FPS = f] : w \in WattsTexts, f \in {<<"5", "8", ".", "0", "3">>, <<"n", "a", "n">>}}
    \cup {[BaseRow EXCEPT !.AVG_FPS = t] : t \in FpsTexts}
    \cup {[BaseRow EXCEPT !.BITRATE = t] : t \in BitrateTexts}
    \cup {[BaseRow EXCEPT !.TIME = t] : t \in TimeTexts}
    \cup {[BaseRow EXCEPT !.AVG_SPEED = t] : t \in SpeedTexts}
    \cup {[BaseRow EXCEPT !.CPU = <<"i", "7", "-", "9", "2", "0">>, !.BITRATE = t] : t \in BitrateTexts}

\* The rows a batch run draws from: the base row, rows that differ from it in
\* one cell, and two rows with a "|" in a cell.
BatchRows ==
  {BaseRow,
   [BaseRow EXCEPT !.CPU = <<"i", "7", "-", "9", "2", "0">>],
   [BaseRow EXCEPT !.TEST = <<"h", "e", "v", "c">>],
   [BaseRow EXCEPT !.FILE = <<"r", "i", "b", "4", "k">>],
   [BaseRow EXCEPT !.BITRATE = <<"9", "0", "0", "0", "k", "b", "/", "s">>],
   [BaseRow EXCEPT !.BITRATE = <<"k", "b", "/", "s">>],
   [BaseRow EXCEPT !.TIME = <<"1", "2", "s">>],
   [BaseRow EXCEPT !.AVG_FPS = <<"1", "2", "0">>],
   [BaseRow EXCEPT !.AVG_SPEED = <<"x">>],
   [BaseRow EXCEPT !.AVG_WATTS = <<"N", "/", "A">>],
   [BaseRow EXCEPT !.AVG_WATTS = <<"5", "0", "1">>],
   [BaseRow EXCEPT !.AVG_WATTS = <<"2", ".", "1">>],
   [BaseRow EXCEPT !.user = "bob"],
   [BaseRow EXCEPT !.CPU = <<"i", "5", "-", "8", "5", "0", "0", "|", "h", "2", "6", "4">>, !.TEST = <<"r", "i", "b">>],
   [BaseRow EXCEPT !.TEST = <<"h", "2", "6", "4", "|", "r", "i", "b">>]}

\* The rows of a batch and the number of times the migration is run over it.
MaxRows == 2
MaxRuns == 2

\* ------------------------------------------------------------ state
VARIABLES
  pc,                   \* the step the run is at
  include_github_user,  \* --include-github-user
  row,                  \* single-row run: the table row
  arch_info,            \* single-row run: lookup_architecture(cpu_raw)
  record,               \* single-row run: the record process_dataframe appended, or None
  result,               \* single-row run: what extract_results_with_users appended, or None
  bhash,                \* single-row run: backfill-submitter-id's hash of result, or None
  parsed,               \* single-row run: parse_cpu(cpu_raw) of backfill-architectures
  munged,               \* single-row run: model and generation columns of munging in analysis.py
  df,                   \* batch run: the rows extract_results returned
  records,              \* batch run: the list process_dataframe builds
  skipped,              \* batch run: process_dataframe's count of skipped rows
  db,                   \* batch run: the rows of table benchmark_results
  inserted,             \* batch run: insert_records' count of inserted records
  ins_skipped,          \* batch run: insert_records' count of skipped records
  run,                  \* batch run: which run of the migration this is
  script,               \* window scan: the script whose extract_results runs
  lines,                \* window scan: comment['body'].splitlines()
  comment_user,         \* window scan: comment['user'], None for a deleted account
  line_no,              \* window scan: the index i of the line the loop is at
  window,               \* window scan: what pd.read_fwf made of the last window, or None
  dfs,                  \* window scan: the accepted tables
  window_df,            \* backfill-submitter-id: the rows of an accepted window
  row_no,               \* backfill-submitter-id: the row df.iterrows() is at
  results,              \* backfill-submitter-id: the list extract_results_with_users builds;
                        \* flagging: the benchmark results of the exported data
  result_no,            \* flagging: the result the loop of main is at
  dry_run,              \* --dry-run
  rows,                 \* backfill: the ids the SELECT returned, in the order of cursor.fetchall()
  updated,              \* backfill: the count updated
  not_matched,          \* backfill: the count not_matched (not_found in backfill-submitter-id)
  hash_to_user,         \* backfill-submitter-id: the mapping from result_hash to username
  commits,              \* the number of conn.commit() calls executed
  gist_pages,           \* get_comments: the length of the list the API returns for each page
  page,                 \* get_comments: the page the loop is at
  comments,             \* get_comments: the list the loop extends
  requested,            \* get_comments: the pages requested so far, in order
  pickle_file           \* get_comments of analysis.py: the comments in comments.pkl, or None

rowvars == <<row, arch_info, record, result, bhash, parsed, munged>>
batchvars == <<df, records, skipped, db, inserted, ins_skipped, run>>
scanvars == <<script, lines, comment_user, line_no, window, dfs>>
tablevars == <<window_df, row_no, results>>
flagvars == <<result_no>>
backfillvars == <<rows, updated, not_matched, hash_to_user>>
fetchvars == <<gist_pages, page, comments, requested, pickle_file>>
extvars == <<scanvars, tablevars, flagvars, fetchvars, backfillvars, dry_run, commits>>
vars == <<pc, include_github_user, row, arch_info, record, result, bhash, parsed, munged,
          df, records, skipped, db, inserted, ins_skipped, run, extvars>>

RowIdle ==
  /\ row = BaseRow
  /\ arch_info = None
  /\ record = None
  /\ result = None
  /\ bhash = None
  /\ parsed = [architecture |-> None, generation |-> None]
  /\ munged = [model |-> None, generation |-> None]

BatchIdle ==
  /\ df = <<>>
  /\ records = <<>>
  /\ skipped = 0
  /\ db = <<>>
  /\ inserted = 0
  /\ ins_skipped = 0
  /\ run = 1

ScanIdle ==
  /\ script = "migrate-gist-data"
  /\ lines = <<>>
  /\ comment_user = None
  /\ line_no = 1
  /\ window = None
  /\ dfs = <<>>

TableIdle ==
  /\ window_df = <<>>
  /\ row_no = 1
  /\ results = <<>>

FlagIdle == result_no = 1

BackfillIdle ==
  /\ rows = <<>>
  /\ updated = 0
  /\ not_matched = 0
  /\ hash_to_user = <<>>

FetchIdle ==
  /\ gist_pages = <<>>
  /\ page = 1
  /\ comments = <<>>
  /\ requested = <<>>
  /\ pickle_file = None

ExtIdle == ScanIdle /\ TableIdle /\ FlagIdle /\ FetchIdle /\ BackfillIdle /\ dry_run = FALSE /\ commits = 0

\* ------------------------------------------------------------ single-row run
RowInit ==
  /\ pc = "row"
  /\ include_github_user = FALSE
  /\ row \in WideRows
  /\ arch_info = None
  /\ record = None
  /\ result = None
  /\ bhash = None
  /\ parsed = [architecture |-> None, generation |-> None]
  /\ munged = [model |-> None, generation |-> None]
  /\ BatchIdle
  /\ ExtIdle

\* migrate-gist-data: one iteration of the loop of process_dataframe.
ProcessRow ==
  /\ pc = "row"
  /\ \E a \in {lookup_architecture(Strip(row.CPU))} : arch_info' = a
  /\ \E r \in {process_row(row, include_github_user)} : record' = r
  /\ pc' = "processed"
  /\ UNCHANGED <<include_github_user, row, result, bhash, parsed, munged, batchvars, extvars>>

\* backfill-submitter-id: one iteration of the row loop of extract_results_with_users.
ExtractRowWithUser ==
  /\ pc = "processed"
  /\ \E r \in {extract_row_with_user(row)} : result' = r
  /\ pc' = "extracted"
  /\ UNCHANGED <<include_github_user, row, arch_info, record, bhash, parsed, munged, batchvars, extvars>>

\* backfill-submitter-id: the hash backfill_submitter_ids computes for the result.
BackfillHash ==
  /\ pc = "extracted"
  /\ \E h \in {IF result = None THEN None ELSE Some(backfill_generate_result_hash(Val(result)))} : bhash' = h
  /\ pc' = "hashed"
  /\ UNCHANGED <<include_github_user, row, arch_info, record, result, parsed, munged, batchvars, extvars>>

\* backfill-architectures: parse_cpu on the stored cpu_raw.
BackfillParseCpu ==
  /\ pc = "hashed"
  /\ \E p \in {parse_cpu(Strip(row.CPU))} : parsed' = p
  /\ pc' = "classified"
  /\ UNCHANGED <<include_github_user, row, arch_info, record, result, bhash, munged, batchvars, extvars>>

\* analysis.py: the model and generation columns munging adds for the row.
Munging ==
  /\ pc = "classified"
  /\ \E model \in {munging_model_of(row.CPU)} :
       munged' = [model |-> model, generation |-> generation_of(model)]
  /\ pc' = "munged"
  /\ UNCHANGED <<include_github_user, row, arch_info, record, result, bhash, parsed, batchvars, extvars>>

RowNext == ProcessRow \/ ExtractRowWithUser \/ BackfillHash \/ BackfillParseCpu \/ Munging
SpecRow == RowInit /\ [][RowNext]_vars

\* ------------------------------------------------------------ batch run
\* main() of migrate-gist-data.py without --dry-run, run MaxRuns times over the
\* same submissions.
Init ==
  /\ pc = "extract"
  /\ include_github_user \in BOOLEAN
  /\ RowIdle
  /\ BatchIdle
  /\ ExtIdle

\* extract_results hands over one more row of an accepted table.
ExtractTableRow ==
  /\ pc = "extract"
  /\ Len(df) < MaxRows
  /\ \E r \in BatchRows : df' = Append(df, r)
  /\ UNCHANGED <<pc, include_github_user, rowvars, records, skipped, db, inserted, ins_skipped, run, extvars>>

\* main: "if df.empty: return", else process_dataframe is called.
StartProcessing ==
  /\ pc = "extract"
  /\ pc' = IF df = <<>> THEN "done" ELSE "process"
  /\ UNCHANGED <<include_github_user, rowvars, batchvars, extvars>>

\* One iteration of the loop of process_dataframe.
ProcessDataframeStep ==
  /\ pc = "process"
  /\ Len(records) + skipped < Len(df)
  /\ \E r \in {process_row(df[Len(records) + skipped + 1], include_github_user)} :
       IF r = None
       THEN skipped' = skipped + 1 /\ UNCHANGED records
       ELSE records' = Append(records, Val(r)) /\ UNCHANGED skipped
  /\ UNCHANGED <<pc, include_github_user, rowvars, df, db, inserted, ins_skipped, run, extvars>>

\* process_dataframe returns and main, with --dry-run, returns: "Dry run stops
\* here".
DryRunReturn ==
  /\ pc = "process"
  /\ Len(records) + skipped = Len(df)
  /\ dry_run
  /\ pc' = "done"
  /\ UNCHANGED <<include_github_user, rowvars, batchvars, extvars>>

\* A main that calls insert_records with --dry-run too: the variant C20 tells
\* from StartInserting.
StartInsertingAlways ==
  /\ pc = "process"
  /\ Len(records) + skipped = Len(df)
  /\ pc' = "insert"
  /\ UNCHANGED <<include_github_user, rowvars, batchvars, extvars>>

\* process_dataframe returns and main, without --dry-run, calls insert_records.
StartInserting ==
  /\ pc = "process"
  /\ Len(records) + skipped = Len(df)
  /\ ~dry_run
  /\ pc' = "insert"
  /\ UNCHANGED <<include_github_user, rowvars, batchvars, extvars>>

\* The UNIQUE constraint of benchmark_results on result_hash: the INSERT of rec
\* raises when a stored row has its result_hash.
unique_violation(table, rec) == \E i \in 1..Len(table) : table[i].result_hash = rec.result_hash

\* An insert loop that returns at the first duplicate: the variant C10 tells
\* from InsertRecord.
InsertRecordStopOnDuplicate ==
  /\ pc = "insert"
  /\ inserted + ins_skipped < Len(records)
  /\ \E rec \in {records[inserted + ins_skipped + 1]} :
       IF unique_violation(db, rec)
       THEN ins_skipped' = ins_skipped + 1 /\ pc' = "done" /\ UNCHANGED <<db, inserted>>
       ELSE db' = Append(db, rec) /\ inserted' = inserted + 1 /\ UNCHANGED <<ins_skipped, pc>>
  /\ UNCHANGED <<include_github_user, rowvars, df, records, skipped, run, extvars>>

\* One iteration of the loop of insert_records: the INSERT, or the except branch.
InsertRecord ==
  /\ pc = "insert"
  /\ inserted + ins_skipped < Len(records)
  /\ \E rec \in {records[inserted + ins_skipped + 1]} :
       IF unique_violation(db, rec)
       THEN ins_skipped' = ins_skipped + 1 /\ UNCHANGED <<db, inserted>>
       ELSE db' = Append(db, rec) /\ inserted' = inserted + 1 /\ UNCHANGED ins_skipped
  /\ UNCHANGED <<pc, include_github_user, rowvars, df, records, skipped, run, extvars>>

\* conn.commit() and the return of insert_records.
Commit ==
  /\ pc = "insert"
  /\ inserted + ins_skipped = Len(records)
  /\ pc' = "done"
  /\ commits' = commits + 1
  /\ UNCHANGED <<include_github_user, rowvars, batchvars, scanvars, tablevars, flagvars, fetchvars, backfillvars, dry_run>>

\* The migration is started again over the same submissions.
Rerun ==
  /\ pc = "done"
  /\ df /= <<>>
  /\ run < MaxRuns
  /\ run' = run + 1
  /\ pc' = "process"
  /\ records' = <<>>
  /\ skipped' = 0
  /\ inserted' = 0
  /\ ins_skipped' = 0
  /\ UNCHANGED <<include_github_user, rowvars, df, db, extvars>>

Next ==
  \/ ExtractTableRow
  \/ StartProcessing
  \/ ProcessDataframeStep
  \/ StartInserting
  \/ InsertRecord
  \/ Commit
  \/ Rerun

Spec == Init /\ [][Next]_vars


\* ------------------------------------------------------------ window scan
\* extract_results of migrate-gist-data.py and of analysis.py over the body of
\* one comment.
expected_cols == <<"CPU", "TEST", "FILE", "BITRATE", "TIME", "AVG_FPS", "AVG_SPEED", "AVG_WATTS", "user">>

\* line.startswith(prefix)
StartsWith(s, prefix) == OccursAt(s, prefix, 1)

\* lines[i:i+6]
WindowOf(ls, i) == SubSeq(ls, i, IF i + 5 <= Len(ls) THEN i + 5 ELSE Len(ls))

\* The lines a body is made of: the header of a table and a data row.
HeaderLine == <<"C", "P", "U", " ", "T", "E", "S", "T", " ", "F", "I", "L", "E", " ", "B", "I", "T", "R", "A", "T", "E", " ", "T", "I", "M", "E", " ", "A", "V", "G", "_", "F", "P", "S", " ", "A", "V", "G", "_", "S", "P", "E", "E", "D", " ", "A", "V", "G", "_", "W", "A", "T", "T", "S">>
DataLine == <<"i", "5", "-", "8", "5", "0", "0", " ", "h", "2", "6", "4", " ", "r", "i", "b", " ", "1", "8", "9", "5", "2", "k", "b", "/", "s", " ", "5", "9", ".", "6", "s", " ", "5", "8", ".", "0", "3", " ", "2", ".", "0", "5", "x", " ", "7", ".", "6">>
MaxLines == 6
Bodies == UNION {[1..n -> {HeaderLine, DataLine}] : n \in 0..MaxLines}

\* The column lists pd.read_fwf may infer: the eight expected columns, the
\* nine of a table that has a user column, a merged pair, a misnamed column and
\* a user column in front.
ColumnLists ==
  {SubSeq(expected_cols, 1, 8),
   expected_cols,
   <<"CPU", "TEST", "FILE", "BITRATE", "TIME", "AVG_FPS", "AVG_SPEED AVG_WATTS">>,
   <<"CPU", "TEST", "FILE", "BITRATE", "TIME", "AVG_FPS", "AVG_SPEED", "WATTS">>,
   <<"user">> \o SubSeq(expected_cols, 1, 8)}

\* pd.read_fwf on the text of a window: the first line is the header, every
\* other line gives at most one row.
read_fwf(win) == {[nrows |-> n, columns |-> c] : n \in 0..(Len(win) - 1), c \in ColumnLists}

\* df['user'] = ...: the column is overwritten when it exists and appended
\* otherwise.
assign_user(columns) ==
  IF \E j \in 1..Len(columns) : columns[j] = "user" THEN columns ELSE Append(columns, "user")

\* comment['user']['login'], or 'ghost' for a comment without a user.
login_of(user) == IF user = None THEN "ghost" ELSE Val(user)

\* An acceptance test that does not look at the number of rows: the variant C11
\* tells from window_accepted.
window_accepted_any_rows(frame) == frame.columns = expected_cols

\* df.shape == (5, 9) and df.columns.to_list() == expected_cols
window_accepted(frame) ==
  /\ frame.nrows = 5
  /\ Len(frame.columns) = 9
  /\ frame.columns = expected_cols

ScanInit ==
  /\ pc = "scan"
  /\ include_github_user = FALSE
  /\ RowIdle
  /\ BatchIdle
  /\ script \in {"migrate-gist-data", "analysis"}
  /\ lines \in Bodies
  /\ comment_user \in {None, Some("alice")}
  /\ line_no = 1
  /\ window = None
  /\ dfs = <<>>
  /\ TableIdle
  /\ FlagIdle
  /\ FetchIdle
  /\ BackfillIdle /\ dry_run = FALSE /\ commits = 0

\* A line that does not start with "CPU".
SkipLine ==
  /\ pc = "scan"
  /\ line_no <= Len(lines)
  /\ ~StartsWith(lines[line_no], <<"C", "P", "U">>)
  /\ line_no' = line_no + 1
  /\ window' = None
  /\ UNCHANGED <<pc, include_github_user, rowvars, batchvars, script, lines, comment_user, dfs, tablevars, flagvars, fetchvars, backfillvars, dry_run, commits>>

\* A line that starts with "CPU": the window is parsed, gets its user column
\* and is appended when it passes the test.
OpenWindow ==
  /\ pc = "scan"
  /\ line_no <= Len(lines)
  /\ StartsWith(lines[line_no], <<"C", "P", "U">>)
  /\ \E parse \in read_fwf(WindowOf(lines, line_no)) :
       \E frame \in {[at |-> line_no, raised |-> FALSE, nrows |-> parse.nrows,
                      columns |-> assign_user(parse.columns), user |-> login_of(comment_user)]} :
         /\ window' = Some(frame)
         /\ dfs' = IF window_accepted(frame) THEN Append(dfs, frame) ELSE dfs
  /\ line_no' = line_no + 1
  /\ UNCHANGED <<pc, include_github_user, rowvars, batchvars, script, lines, comment_user, tablevars, flagvars, fetchvars, backfillvars, dry_run, commits>>

\* migrate-gist-data.py: "except Exception: pass" around the window. analysis.py
\* has no handler around pd.read_fwf.
WindowRaises ==
  /\ pc = "scan"
  /\ script = "migrate-gist-data"
  /\ line_no <= Len(lines)
  /\ StartsWith(lines[line_no], <<"C", "P", "U">>)
  /\ window' = Some([at |-> line_no, raised |-> TRUE, nrows |-> 0, columns |-> <<>>,
                     user |-> login_of(comment_user)])
  /\ line_no' = line_no + 1
  /\ UNCHANGED <<pc, include_github_user, rowvars, batchvars, script, lines, comment_user, dfs, tablevars, flagvars, fetchvars, backfillvars, dry_run, commits>>

\* The end of the loop: migrate-gist-data.py returns an empty DataFrame when
\* nothing was accepted, analysis.py calls pd.concat, which raises on an empty
\* list.
ScanReturn ==
  /\ pc = "scan"
  /\ line_no > Len(lines)
  /\ pc' = IF script = "analysis" /\ dfs = <<>> THEN "raised" ELSE "scanned"
  /\ UNCHANGED <<include_github_user, rowvars, batchvars, extvars>>

ScanNext == SkipLine \/ OpenWindow \/ WindowRaises \/ ScanReturn
SpecScan == ScanInit /\ [][ScanNext]_vars

\* ------------------------------------------------------------ rows of a window
\* extract_results_with_users of backfill-submitter-id.py on one accepted
\* window: the loop over df.iterrows() inside the try.
WINDOW_ROWS == 5
TableRows == {BaseRow, [BaseRow EXCEPT !.TEST = <<"h", "e", "v", "c">>], [BaseRow EXCEPT !.BITRATE = <<"k", "b", "/", "s">>]}

TableInit ==
  /\ pc = "rows"
  /\ include_github_user = FALSE
  /\ RowIdle
  /\ BatchIdle
  /\ ScanIdle
  /\ window_df \in [1..WINDOW_ROWS -> TableRows]
  /\ row_no = 1
  /\ results = <<>>
  /\ FlagIdle
  /\ FetchIdle
  /\ BackfillIdle /\ dry_run = FALSE /\ commits = 0

\* results.append({...}) for the row.
AppendResult ==
  /\ pc = "rows"
  /\ row_no <= Len(window_df)
  /\ \E r \in {extract_row_with_user(window_df[row_no])} :
       /\ r /= None
       /\ results' = Append(results, Val(r))
  /\ row_no' = row_no + 1
  /\ UNCHANGED <<pc, include_github_user, rowvars, batchvars, scanvars, window_df, flagvars, fetchvars, backfillvars, dry_run, commits>>

\* int() or float() raises for the row: "except Exception: pass" is outside the
\* loop over the rows, so the window ends here.
RowRaises ==
  /\ pc = "rows"
  /\ row_no <= Len(window_df)
  /\ extract_row_with_user(window_df[row_no]) = None
  /\ pc' = "window_done"
  /\ UNCHANGED <<include_github_user, rowvars, batchvars, extvars>>

\* The loop over the rows ends.
WindowDone ==
  /\ pc = "rows"
  /\ row_no > Len(window_df)
  /\ pc' = "window_done"
  /\ UNCHANGED <<include_github_user, rowvars, batchvars, extvars>>

TableNext == AppendResult \/ RowRaises \/ WindowDone
SpecTable == TableInit /\ [][TableNext]_vars

\* ------------------------------------------------------------ data quality flags
\* x < bound for a float x and an integer bound; false for nan.
FloatLtInt(x, bound) ==
  IF x.kind = "nan" THEN FALSE
  ELSE IF x.kind = "inf" THEN x.neg
  ELSE IF x.neg THEN TRUE
  ELSE x.m < bound * Pow10(x.k)

POWER_TOO_LOW_WATTS == 3
EFFICIENCY_OUTLIER_FPS_PER_WATT == 400

\* The list flags that flag_data_quality builds, in the order of its appends.
quality_flags(res) ==
  (IF res.avg_watts /= None /\ FloatLtInt(Val(res.avg_watts), POWER_TOO_LOW_WATTS)
   THEN <<"power_too_low">> ELSE <<>>)
  \o (IF res.fps_per_watt /= None /\ FloatGtInt(Val(res.fps_per_watt), EFFICIENCY_OUTLIER_FPS_PER_WATT)
      THEN <<"efficiency_outlier">> ELSE <<>>)
  \o (IF res.architecture = Some("Arrow Lake") THEN <<"arrow_lake_power_issue">> ELSE <<>>)

\* flag_data_quality with the power flag also for null or 3.0 watts: the
\* variant C15 tells from flag_data_quality.
flag_data_quality_power_at_limit(res) ==
  [res EXCEPT !.data_quality_flags =
     IF res.avg_watts = None \/ ~FloatGtInt(Val(res.avg_watts), POWER_TOO_LOW_WATTS)
     THEN Some(<<"power_too_low">> \o SelectSeq(quality_flags(res), LAMBDA f : f /= "power_too_low"))
     ELSE IF quality_flags(res) /= <<>> THEN Some(quality_flags(res)) ELSE None]

\* flag_data_quality that stores the empty list and resets avg_watts of a
\* flagged result: the variant C16 tells from flag_data_quality.
flag_data_quality_mutating(res) ==
  [res EXCEPT !.data_quality_flags = Some(quality_flags(res)),
                 !.avg_watts = IF quality_flags(res) /= <<>> THEN None ELSE @]

\* flag_data_quality of export-to-json.py and flag-r2-data.py (the same text in
\* both): result['data_quality_flags'] = flags if flags else None.
flag_data_quality(res) ==
  Bind(quality_flags(res), LAMBDA flags :
    [res EXCEPT !.data_quality_flags = IF flags /= <<>> THEN Some(flags) ELSE None])

\* The results the flagging is run on: avg_watts and fps_per_watt around their
\* limits, null or not a number, with flags of an earlier run or none.
FlagWatts == {None, Some(Fin(FALSE, 21, 1)), Some(Fin(FALSE, 299, 2)), Some(Fin(FALSE, 3, 0)),
              Some(Fin(FALSE, 76, 1)), Some(Fin(FALSE, 0, 0)), Some(NaN)}
FlagFpsPerWatt == {None, Some(Fin(FALSE, 3279, 1)), Some(Fin(FALSE, 400, 0)), Some(Fin(FALSE, 4005, 1)),
                   Some(Inf(FALSE)), Some(NaN)}
FlagArchitectures == {None, Some("Arrow Lake"), Some("Comet Lake")}
FlagsBefore == {None, Some(<<"power_too_low">>)}
WideResults ==
  {[id |-> 1, avg_watts |-> w, fps_per_watt |-> e, architecture |-> a, data_quality_flags |-> q] :
     w \in FlagWatts, e \in FlagFpsPerWatt, a \in FlagArchitectures, q \in FlagsBefore}
NarrowResults ==
  {r \in WideResults :
     /\ r.avg_watts \in {None, Some(Fin(FALSE, 21, 1))}
     /\ r.fps_per_watt \in {None, Some(Fin(FALSE, 4005, 1))}
     /\ r.architecture \in {Some("Arrow Lake"), Some("Comet Lake")}}
MaxResults == 2

FlagInit ==
  /\ pc = "flag"
  /\ include_github_user = FALSE
  /\ RowIdle
  /\ BatchIdle
  /\ ScanIdle
  /\ window_df = <<>>
  /\ row_no = 1
  /\ results \in {<<r>> : r \in WideResults} \cup UNION {[1..n -> NarrowResults] : n \in 2..MaxResults}
  /\ result_no = 1
  /\ FetchIdle
  /\ BackfillIdle /\ dry_run = FALSE /\ commits = 0

\* One iteration of "for result in results": flag_data_quality(result) updates
\* the result in place.
FlagResult ==
  /\ pc = "flag"
  /\ result_no <= Len(results)
  /\ results' = [results EXCEPT ![result_no] = flag_data_quality(@)]
  /\ result_no' = result_no + 1
  /\ UNCHANGED <<pc, include_github_user, rowvars, batchvars, scanvars, window_df, row_no, fetchvars, backfillvars, dry_run, commits>>

\* The loop ends and the data is written out.
FlagsDone ==
  /\ pc = "flag"
  /\ result_no > Len(results)
  /\ pc' = "flagged"
  /\ UNCHANGED <<include_github_user, rowvars, batchvars, extvars>>

FlagNext == FlagResult \/ FlagsDone
SpecFlags == FlagInit /\ [][FlagNext]_vars

\* ------------------------------------------------------------ runs against the database
\* The orders a sequence can be taken in.
Orders(s) ==
  {[k \in 1..Len(s) |-> s[f[k]]] :
     f \in {g \in [1..Len(s) -> 1..Len(s)] : \A a, b \in 1..Len(s) : g[a] = g[b] => a = b}}

\* The elements of a set of numbers in ascending order.
RECURSIVE IdSeq(_)
IdSeq(ids) == IF ids = {} THEN <<>> ELSE <<Min(ids)>> \o IdSeq(ids \ {Min(ids)})

\* A SELECT without the WHERE clause: the variant C28 tells from
\* rows_without_architecture.
rows_of_every_architecture(stored) == {k \in 1..Len(stored) : TRUE}

\* SELECT ... WHERE architecture IS NULL OR architecture = ''
rows_without_architecture(stored) == {k \in 1..Len(stored) : stored[k].architecture \in {None, Some("")}}

\* SELECT ... WHERE submitter_id IS NULL OR submitter_id = ''
rows_without_submitter_id(stored) == {k \in 1..Len(stored) : stored[k].submitter_id \in {None, Some("")}}

\* A mapping that gives every hash the same made-up name: the variant C22 tells
\* from build_hash_to_user.
build_hash_to_user_made_up(rs) ==
  [h \in {backfill_generate_result_hash(rs[k]) : k \in 1..Len(rs)} |-> "unknown"]

\* The dictionary hash_to_user of backfill_submitter_ids: a later result
\* overwrites an earlier one with the same hash.
build_hash_to_user(rs) ==
  [h \in {backfill_generate_result_hash(rs[k]) : k \in 1..Len(rs)} |->
     rs[CHOOSE k \in 1..Len(rs) :
          /\ backfill_generate_result_hash(rs[k]) = h
          /\ \A j \in 1..Len(rs) : backfill_generate_result_hash(rs[j]) = h => j <= k].username]

\* The tables the scripts are run against: rows the migration stored with and
\* without --include-github-user, some of them without architecture, and a row
\* with empty strings; no two rows of a table have the same result_hash.
DbRows == {BaseRow, [BaseRow EXCEPT !.CPU = <<"N", "9", "5">>], [BaseRow EXCEPT !.CPU = <<"i", "7", "-", "9", "2", "0">>, !.TEST = <<"h", "e", "v", "c">>],
           [BaseRow EXCEPT !.CPU = <<"i", "7", "-", "1", "0", "3", "5", " ", "A", "r", "c", " ", "A", "3", "8", "0">>, !.user = "bob"]}
StoredRecords ==
  {Val(process_row(r, f)) : r \in DbRows, f \in BOOLEAN}
    \cup {[Val(process_row([BaseRow EXCEPT !.CPU = <<"N", "9", "5">>], FALSE)) EXCEPT !.architecture = Some(""),
                                                                         !.submitter_id = Some("")]}
MaxStored == 2
StoredTables ==
  {t \in UNION {[1..n -> StoredRecords] : n \in 0..MaxStored} :
     \A a, b \in 1..Len(t) : t[a].result_hash = t[b].result_hash => a = b}

\* The rows of the gist the scripts are run over.
DbBatches == {<<>>, <<BaseRow>>, <<[BaseRow EXCEPT !.CPU = <<"N", "9", "5">>], [BaseRow EXCEPT !.user = "bob"]>>,
              <<[BaseRow EXCEPT !.BITRATE = <<"k", "b", "/", "s">>], [BaseRow EXCEPT !.TEST = <<"h", "e", "v", "c">>]>>}
ResultRows == {BaseRow, [BaseRow EXCEPT !.user = "bob"], [BaseRow EXCEPT !.CPU = <<"N", "9", "5">>, !.user = "ghost"]}
ResultLists == UNION {[1..n -> {Val(extract_row_with_user(r)) : r \in ResultRows}] : n \in 0..2}

\* main() of migrate-gist-data.py, backfill-submitter-id.py and
\* backfill-architectures.py, with or without --dry-run and with the database
\* credentials set, after the comments were fetched and parsed.
DbInit ==
  /\ script \in {"migrate-gist-data", "backfill-submitter-id", "backfill-architectures"}
  /\ dry_run \in BOOLEAN
  /\ db \in StoredTables
  /\ pc = CASE script = "migrate-gist-data" -> "extract"
            [] script = "backfill-submitter-id" -> "submitter_main"
            [] OTHER -> "architectures"
  /\ IF script = "migrate-gist-data"
     THEN df \in DbBatches /\ include_github_user \in BOOLEAN
     ELSE df = <<>> /\ include_github_user = FALSE
  /\ IF script = "backfill-submitter-id" THEN results \in ResultLists ELSE results = <<>>
  /\ RowIdle
  /\ records = <<>> /\ skipped = 0 /\ inserted = 0 /\ ins_skipped = 0 /\ run = 1
  /\ lines = <<>> /\ comment_user = None /\ line_no = 1 /\ window = None /\ dfs = <<>>
  /\ window_df = <<>> /\ row_no = 1
  /\ FlagIdle
  /\ FetchIdle
  /\ BackfillIdle
  /\ commits = 0

\* backfill-submitter-id main: "if not results: return" and, with --dry-run,
\* the return before backfill_submitter_ids.
SubmitterMainReturn ==
  /\ pc = "submitter_main"
  /\ results = <<>> \/ dry_run
  /\ pc' = "done"
  /\ UNCHANGED <<include_github_user, rowvars, batchvars, extvars>>

\* backfill_submitter_ids, called by main with dry_run left at its default
\* False: the mapping is built and the rows without submitter_id are selected.
StartBackfillSubmitterIds ==
  /\ pc = "submitter_main"
  /\ results /= <<>>
  /\ ~dry_run
  /\ hash_to_user' = build_hash_to_user(results)
  /\ \E order \in Orders(IdSeq(rows_without_submitter_id(db))) : rows' = order
  /\ updated' = 0
  /\ not_matched' = 0
  /\ pc' = "submitter_rows"
  /\ UNCHANGED <<include_github_user, rowvars, batchvars, scanvars, tablevars, flagvars, fetchvars, dry_run, commits>>

\* One iteration of the loop of backfill_submitter_ids over the selected rows.
UpdateSubmitterId ==
  /\ pc = "submitter_rows"
  /\ updated + not_matched < Len(rows)
  /\ \E id \in {rows[updated + not_matched + 1]} :
       IF db[id].result_hash \in DOMAIN hash_to_user
       THEN /\ db' = [db EXCEPT ![id].submitter_id = Some(hash_to_user[db[id].result_hash])]
            /\ updated' = updated + 1
            /\ UNCHANGED not_matched
       ELSE /\ not_matched' = not_matched + 1
            /\ UNCHANGED <<db, updated>>
  /\ UNCHANGED <<pc, include_github_user, rowvars, df, records, skipped, inserted, ins_skipped, run,
                 scanvars, tablevars, flagvars, fetchvars, rows, hash_to_user, dry_run, commits>>

\* conn.commit() of backfill_submitter_ids.
SubmitterCommit ==
  /\ pc = "submitter_rows"
  /\ updated + not_matched = Len(rows)
  /\ commits' = commits + 1
  /\ pc' = "done"
  /\ UNCHANGED <<include_github_user, rowvars, batchvars, scanvars, tablevars, flagvars, fetchvars, backfillvars, dry_run>>

\* backfill_architectures(dry_run=args.dry_run): the rows without architecture
\* are selected.
StartBackfillArchitectures ==
  /\ pc = "architectures"
  /\ \E order \in Orders(IdSeq(rows_without_architecture(db))) : rows' = order
  /\ updated' = 0
  /\ not_matched' = 0
  /\ pc' = "architecture_rows"
  /\ UNCHANGED <<include_github_user, rowvars, batchvars, scanvars, tablevars, flagvars, fetchvars, hash_to_user,
                 dry_run, commits>>

\* A loop body that writes the rule's generation also when it is null: the
\* variant C21 tells from UpdateArchitecture.
UpdateArchitectureWithNullGeneration ==
  /\ pc = "architecture_rows"
  /\ updated + not_matched < Len(rows)
  /\ \E id \in {rows[updated + not_matched + 1]} :
       \E p \in {parse_cpu(db[id].cpu_raw)} :
         IF p.architecture /= None
         THEN /\ db' = IF dry_run THEN db
                       ELSE [db EXCEPT ![id].architecture = p.architecture, ![id].cpu_generation = p.generation]
              /\ updated' = updated + 1
              /\ UNCHANGED not_matched
         ELSE /\ not_matched' = not_matched + 1
              /\ UNCHANGED <<db, updated>>
  /\ UNCHANGED <<pc, include_github_user, rowvars, df, records, skipped, inserted, ins_skipped, run,
                 scanvars, tablevars, flagvars, fetchvars, rows, hash_to_user, dry_run, commits>>

\* One iteration of the loop of backfill_architectures over the selected rows.
UpdateArchitecture ==
  /\ pc = "architecture_rows"
  /\ updated + not_matched < Len(rows)
  /\ \E id \in {rows[updated + not_matched + 1]} :
       \E p \in {parse_cpu(db[id].cpu_raw)} :
         IF p.architecture /= None
         THEN /\ db' = IF dry_run THEN db
                       ELSE [db EXCEPT ![id].architecture = p.architecture,
                                       ![id].cpu_generation = IF p.generation /= None THEN p.generation ELSE @]
              /\ updated' = updated + 1
              /\ UNCHANGED not_matched
         ELSE /\ not_matched' = not_matched + 1
              /\ UNCHANGED <<db, updated>>
  /\ UNCHANGED <<pc, include_github_user, rowvars, df, records, skipped, inserted, ins_skipped, run,
                 scanvars, tablevars, flagvars, fetchvars, rows, hash_to_user, dry_run, commits>>

\* The end of the loop: "if not dry_run: conn.commit()".
ArchitecturesCommit ==
  /\ pc = "architecture_rows"
  /\ updated + not_matched = Len(rows)
  /\ commits' = IF dry_run THEN commits ELSE commits + 1
  /\ pc' = "done"
  /\ UNCHANGED <<include_github_user, rowvars, batchvars, scanvars, tablevars, flagvars, fetchvars, backfillvars, dry_run>>

\* backfill-architectures.py is run again, with the same --dry-run, on the
\* database the run before left.
RerunBackfillArchitectures ==
  /\ pc = "done"
  /\ script = "backfill-architectures"
  /\ run < MaxRuns
  /\ run' = run + 1
  /\ pc' = "architectures"
  /\ rows' = <<>>
  /\ updated' = 0
  /\ not_matched' = 0
  /\ UNCHANGED <<include_github_user, rowvars, df, records, skipped, db, inserted, ins_skipped,
                 scanvars, tablevars, flagvars, fetchvars, hash_to_user, dry_run, commits>>

DbNext ==
  \/ StartProcessing
  \/ ProcessDataframeStep
  \/ DryRunReturn
  \/ StartInserting
  \/ InsertRecord
  \/ Commit
  \/ SubmitterMainReturn
  \/ StartBackfillSubmitterIds
  \/ UpdateSubmitterId
  \/ SubmitterCommit
  \/ StartBackfillArchitectures
  \/ UpdateArchitecture
  \/ ArchitecturesCommit
  \/ RerunBackfillArchitectures

SpecDb == DbInit /\ [][DbNext]_vars

\* ------------------------------------------------------------ get_comments
\* per_page of the requests of migrate-gist-data.py and backfill-submitter-id.py,
\* and the page length analysis.py, which sends no per_page, tests for.
PER_PAGE == 100
DEFAULT_PER_PAGE == 30
per_page(s) == IF s = "analysis" THEN DEFAULT_PER_PAGE ELSE PER_PAGE

\* The pages the API is asked for at most, and the lengths of the list it
\* returns for a page.
MaxPages == 3
PageLengths(s) == {0, 1, per_page(s) - 1, per_page(s)}

\* r.json() for a request of page k that returns n comments.
PageOf(k, n) == [j \in 1..n |-> [page |-> k, no |-> j]]

\* A loop that ends only at an empty page: the variant C29 tells from
\* is_last_page.
is_last_page_when_empty(s, n) == n = 0

\* "if len(data) < 100: break", and "if len(r) != 30: break" in analysis.py.
is_last_page(s, n) == IF s = "analysis" THEN n /= DEFAULT_PER_PAGE ELSE n < PER_PAGE

FetchInit ==
  /\ pc = "get_comments"
  /\ include_github_user = FALSE
  /\ RowIdle
  /\ BatchIdle
  /\ script \in {"migrate-gist-data", "backfill-submitter-id", "analysis"}
  /\ lines = <<>> /\ comment_user = None /\ line_no = 1 /\ window = None /\ dfs = <<>>
  /\ TableIdle
  /\ FlagIdle
  /\ gist_pages \in [1..MaxPages -> PageLengths(script)]
  /\ page = 1
  /\ comments = <<>>
  /\ requested = <<>>
  /\ pickle_file \in IF script = "analysis" THEN {None, Some(PageOf(1, 1))} ELSE {None}
  /\ BackfillIdle /\ dry_run = FALSE /\ commits = 0

\* analysis.py: comments.pkl exists and is loaded, nothing is requested.
LoadPickle ==
  /\ pc = "get_comments"
  /\ script = "analysis"
  /\ pickle_file /= None
  /\ comments' = Val(pickle_file)
  /\ pc' = "returned"
  /\ UNCHANGED <<include_github_user, rowvars, batchvars, scanvars, tablevars, flagvars, gist_pages, page,
                 requested, pickle_file, backfillvars, dry_run, commits>>

\* One iteration of "while True": the page is requested and appended, and the
\* loop ends at a last page (analysis.py then writes comments.pkl) or goes on
\* with the next page.
RequestPage ==
  /\ pc = "get_comments"
  /\ script = "analysis" => pickle_file = None
  /\ page <= MaxPages
  /\ requested' = Append(requested, page)
  /\ \E data \in {PageOf(page, gist_pages[page])} :
       /\ comments' = comments \o data
       /\ IF is_last_page(script, Len(data))
          THEN /\ pc' = "returned"
               /\ pickle_file' = IF script = "analysis" THEN Some(comments') ELSE pickle_file
               /\ UNCHANGED page
          ELSE /\ page' = page + 1
               /\ UNCHANGED <<pc, pickle_file>>
  /\ UNCHANGED <<include_github_user, rowvars, batchvars, scanvars, tablevars, flagvars, gist_pages,
                 backfillvars, dry_run, commits>>

\* r.raise_for_status() raises for the request.
RaiseForStatus ==
  /\ pc = "get_comments"
  /\ script = "analysis" => pickle_file = None
  /\ page <= MaxPages
  /\ requested' = Append(requested, page)
  /\ pc' = "raised"
  /\ UNCHANGED <<include_github_user, rowvars, batchvars, scanvars, tablevars, flagvars, gist_pages, page,
                 comments, pickle_file, backfillvars, dry_run, commits>>

FetchNext == LoadPickle \/ RequestPage \/ RaiseForStatus
SpecFetch == FetchInit /\ [][FetchNext]_vars

\* The loop is a sequential program: its next step is taken.
SpecFetchFair == SpecFetch /\ WF_vars(FetchNext)

\* ------------------------------------------------------------ properties
\* The indices of the rules of each table whose pattern matches a label.
MigrateMatches(cpu_raw) ==
  {k \in 1..Len(CPU_PATTERNS) : re_search(CPU_PATTERNS[k].pattern, cpu_raw)}
BackfillMatches(cpu_raw) ==
  {k \in 1..Len(BACKFILL_CPU_PATTERNS) : re_search(BACKFILL_CPU_PATTERNS[k].pattern, cpu_raw)}

\* The index of the first rule of a table with pattern p (0 when it has none).
IndexOf(table, p) ==
  IF \E k \in 1..Len(table) : table[k].pattern = p
  THEN Min({k \in 1..Len(table) : table[k].pattern = p})
  ELSE 0

\* C1: for every CPU label, lookup_architecture and parse_cpu return the fields
\* of the lowest-index rule of their table whose pattern matches the label, and
\* return a result whenever at least one rule matches.
C1_FirstMatchWins ==
  LET cpu_raw == Strip(row.CPU)
      M == MigrateMatches(cpu_raw)
      B == BackfillMatches(cpu_raw)
  IN /\ pc /= "row" =>
          /\ (M = {}) <=> (arch_info = None)
          /\ M /= {} =>
               arch_info = Some(CPUArchitecture(CPU_PATTERNS[Min(M)].architecture, CPU_PATTERNS[Min(M)].codename,
                                                CPU_PATTERNS[Min(M)].release_year, CPU_PATTERNS[Min(M)].sort_order))
     /\ pc = "classified" =>
          /\ (B = {}) <=> (parsed.architecture = None)
          /\ B /= {} =>
               parsed = [architecture |-> Some(BACKFILL_CPU_PATTERNS[Min(B)].architecture),
                         generation |-> BACKFILL_CPU_PATTERNS[Min(B)].generation]

\* A label that rules of different architectures match, in both tables, has
\* been classified by both.
C1_Witness ==
  /\ pc = "classified"
  /\ \E i, j \in MigrateMatches(Strip(row.CPU)) :
       i < j /\ CPU_PATTERNS[i].architecture /= CPU_PATTERNS[j].architecture
  /\ \E i, j \in BackfillMatches(Strip(row.CPU)) :
       i < j /\ BACKFILL_CPU_PATTERNS[i].architecture /= BACKFILL_CPU_PATTERNS[j].architecture

\* C2: the label "i7-10700K" does not match the Ice Lake (10xxG) rule and is
\* classified by the desktop rule, architecture "Comet Lake" and generation 10,
\* by lookup_architecture with parse_cpu_info and by parse_cpu.
C2_DesktopCometLake ==
  row.CPU = <<"i", "7", "-", "1", "0", "7", "0", "0", "K">> =>
    /\ ~re_search(P_IceLake, Strip(row.CPU))
    /\ pc /= "row" =>
         /\ MigrateMatches(Strip(row.CPU)) /= {}
         /\ Min(MigrateMatches(Strip(row.CPU))) = IndexOf(CPU_PATTERNS, P_CometLake)
         /\ arch_info = Some(CPUArchitecture("Comet Lake", "CML", 2020, 100))
         /\ record /= None
         /\ Val(record).architecture = Some("Comet Lake")
         /\ Val(record).cpu_generation = Some(10)
    /\ pc = "classified" =>
         /\ Min(BackfillMatches(Strip(row.CPU))) = IndexOf(BACKFILL_CPU_PATTERNS, P_CometLakeAnchored)
         /\ parsed = [architecture |-> Some("Comet Lake"), generation |-> Some(10)]

\* "i7-10700K" has gone through both classifiers.
C2_Witness ==
  /\ pc = "classified"
  /\ row.CPU = <<"i", "7", "-", "1", "0", "7", "0", "0", "K">>
  /\ record /= None
  /\ parsed.architecture /= None

\* The suffix-qualified rule with pattern specific is listed in the table, and
\* before the generic rule with pattern generic when the table has that one.
ListedBefore(table, specific, generic) ==
  /\ IndexOf(table, specific) > 0
  /\ IndexOf(table, generic) > 0 => IndexOf(table, specific) < IndexOf(table, generic)

\* The pairs (suffix-qualified pattern, generic pattern for the same number
\* range) of each table.
MigratePairs == {<<P_IceLake, P_CometLake>>, <<P_TigerLake, P_RocketLake>>}
BackfillPairs ==
  {<<P_IceLake, P_CometLakeAnchored>>, <<P_TigerLake, P_RocketLake>>}
    \cup {<<XeonE3v(n), P_XeonE3>> : n \in {<<"3">>, <<"4">>, <<"5">>, <<"6">>}}

\* A label that both rules of a pair match is not classified by the generic one.
GenericNeverShadows(table, pairs, matches) ==
  \A pr \in pairs :
    IndexOf(table, pr[1]) \in matches /\ IndexOf(table, pr[2]) \in matches =>
      Min(matches) /= IndexOf(table, pr[2])

\* C3: in every rule table each suffix-qualified rule (10xxG Ice Lake, 11xxG
\* Tiger Lake, Xeon E3 vN) is listed at a lower index than the generic rule for
\* the same number range (Comet Lake, Rocket Lake, generic Xeon E3), so that a
\* label is never classified by the generic rule when the specific one matches.
C3_SpecificBeforeGeneric ==
  /\ \A pr \in MigratePairs : ListedBefore(CPU_PATTERNS, pr[1], pr[2])
  /\ \A pr \in BackfillPairs : ListedBefore(BACKFILL_CPU_PATTERNS, pr[1], pr[2])
  /\ pc /= "row" => GenericNeverShadows(CPU_PATTERNS, MigratePairs, MigrateMatches(Strip(row.CPU)))
  /\ pc = "classified" =>
       GenericNeverShadows(BACKFILL_CPU_PATTERNS, BackfillPairs, BackfillMatches(Strip(row.CPU)))

\* C4: when no rule matches a CPU label, lookup_architecture returns nothing,
\* process_dataframe appends a record with architecture null exactly when it
\* appends one for the same row under a matched label, and parse_cpu returns
\* (null, null).
C4_UnmatchedStillEmitted ==
  /\ pc /= "row" /\ MigrateMatches(Strip(row.CPU)) = {} =>
       /\ arch_info = None
       /\ (record /= None) <=> (process_row([row EXCEPT !.CPU = BaseRow.CPU], include_github_user) /= None)
       /\ record /= None => Val(record).architecture = None /\ Val(record).cpu_raw = Strip(row.CPU)
  /\ pc = "classified" /\ BackfillMatches(Strip(row.CPU)) = {} =>
       parsed = [architecture |-> None, generation |-> None]

\* A row whose label no rule of either table matches has been processed and its
\* record appended.
C4_Witness ==
  /\ pc = "classified"
  /\ MigrateMatches(Strip(row.CPU)) = {}
  /\ BackfillMatches(Strip(row.CPU)) = {}
  /\ record /= None
  /\ Val(record).architecture = None

\* The AVG_WATTS text parses as a number v with 0 < v <= MAX_WATTS.
WattsInRange(text) ==
  LET w == ParseFloat(text)
  IN /\ w /= None
     /\ Val(w).kind = "fin"
     /\ ~Val(w).neg
     /\ Val(w).m > 0
     /\ Val(w).m <= MAX_WATTS * Pow10(Val(w).k)

\* C5: normalized avg_watts is non-null if and only if the raw text parses as a
\* number v with 0 < v <= 500, and then it equals v; both scripts normalize
\* alike.
C5_WattsNonNullIffInRange ==
  /\ pc /= "row" /\ record /= None =>
       /\ (Val(record).avg_watts /= None) <=> WattsInRange(row.AVG_WATTS)
       /\ WattsInRange(row.AVG_WATTS) => Val(record).avg_watts = ParseFloat(row.AVG_WATTS)
  /\ pc \in {"hashed", "classified"} /\ result /= None =>
       (backfill_normalize_watts(Val(result).avg_watts) /= None) <=> WattsInRange(row.AVG_WATTS)

\* C6: in every record process_dataframe emits, fps_per_watt is null if and
\* only if avg_watts is null, and otherwise is avg_fps / avg_watts.
C6_FpsPerWattIffWatts ==
  pc /= "row" /\ record /= None =>
    /\ (Val(record).fps_per_watt = None) <=> (Val(record).avg_watts = None)
    /\ Val(record).avg_watts /= None =>
         Val(record).fps_per_watt = Some(FloatDiv(Val(record).avg_fps, Val(Val(record).avg_watts)))

\* The six values result_hash is computed from.
HashFields == {"cpu_raw", "test_name", "test_file", "bitrate_kbps", "avg_fps", "avg_watts"}
DifferingHashFields(a, b) == {f \in HashFields : a[f] /= b[f]}

\* C7: two records that agree on the six hash fields have the same result_hash
\* whatever their other fields are, and the hash a record carries is the hash
\* computed again from the record.
C7_HashDependsOnlyOnSixFields ==
  /\ \A i \in 1..Len(records) : records[i].result_hash = generate_result_hash(records[i])
  /\ \A i, j \in 1..Len(records) :
       DifferingHashFields(records[i], records[j]) = {} => records[i].result_hash = records[j].result_hash
  /\ \A i \in 1..Len(records) : \A j \in 1..Len(db) :
       DifferingHashFields(records[i], db[j]) = {} => records[i].result_hash = db[j].result_hash

\* Two records that agree on the six hash fields and differ in the submitter,
\* and two that differ in time_seconds or avg_speed, have been built.
C7_Witness ==
  /\ Len(records) = 2
  /\ DifferingHashFields(records[1], records[2]) = {}
  /\ \/ records[1].submitter_id /= records[2].submitter_id
     \/ records[1].time_seconds /= records[2].time_seconds
     \/ records[1].avg_speed /= records[2].avg_speed
  /\ include_github_user

\* The result extract_results_with_users appends for a row, with avg_watts
\* normalized as its generate_result_hash normalizes it; None when the row is
\* not appended.
BackfillFields(r) ==
  LET res == extract_row_with_user(r)
  IN IF res = None THEN None
     ELSE Some([cpu_raw |-> Val(res).cpu_raw, test_name |-> Val(res).test_name,
                test_file |-> Val(res).test_file, bitrate_kbps |-> Val(res).bitrate_kbps,
                avg_fps |-> Val(res).avg_fps,
                avg_watts |-> backfill_normalize_watts(Val(res).avg_watts),
                result_hash |-> backfill_generate_result_hash(Val(res))])

\* C8: with the other five hash inputs held fixed, changing any single one of
\* cpu_raw, test_name, test_file, bitrate_kbps, avg_fps or normalized avg_watts
\* changes the string that is hashed and the result_hash, in both scripts.
C8_SingleFieldChangesHash ==
  /\ \A i, j \in 1..Len(records) :
       Cardinality(DifferingHashFields(records[i], records[j])) = 1 =>
         /\ hash_input(records[i]) /= hash_input(records[j])
         /\ records[i].result_hash /= records[j].result_hash
  /\ pc = "done" =>
       \A i, j \in 1..Len(df) :
         LET a == BackfillFields(df[i])
             b == BackfillFields(df[j])
         IN a /= None /\ b /= None /\ Cardinality(DifferingHashFields(Val(a), Val(b))) = 1 =>
              Val(a).result_hash /= Val(b).result_hash

\* Two records that differ in avg_watts alone, one null and one a number, have
\* been built.
C8_Witness ==
  /\ Len(records) = 2
  /\ pc = "done"
  /\ DifferingHashFields(records[1], records[2]) = {"avg_watts"}
  /\ records[1].avg_watts = None
  /\ records[2].avg_watts /= None

\* C9: for every row both scripts process, the hash migrate-gist-data computes
\* equals the hash backfill-submitter-id computes; rows whose AVG_WATTS
\* normalizes to null get the hash of the same row with AVG_WATTS "N/A".
C9_SameHashInBothPaths ==
  pc \in {"hashed", "classified"} /\ record /= None /\ result /= None =>
    /\ bhash = Some(Val(record).result_hash)
    /\ Val(record).avg_watts = None =>
         /\ process_row([row EXCEPT !.AVG_WATTS = <<"N", "/", "A">>], include_github_user) /= None
         /\ Val(record).result_hash =
              Val(process_row([row EXCEPT !.AVG_WATTS = <<"N", "/", "A">>], include_github_user)).result_hash
         /\ bhash = Some(backfill_generate_result_hash(Val(extract_row_with_user([row EXCEPT !.AVG_WATTS = <<"N", "/", "A">>]))))

\* Both scripts have hashed a row whose AVG_WATTS is a number the filter drops.
C9_Witness ==
  /\ pc = "hashed"
  /\ record /= None
  /\ bhash /= None
  /\ row.AVG_WATTS = <<"5", "0", "1">>
  /\ Val(record).avg_watts = None

\* The result_hash values stored in a table or carried by a list of records.
Hashes(table) == {table[i].result_hash : i \in 1..Len(table)}
OnePerHash(table) == \A i, j \in 1..Len(table) : table[i].result_hash = table[j].result_hash => i = j

\* C10: a second run over the same submissions leaves the table as the first
\* run left it; an insert whose result_hash is stored changes nothing, is
\* counted as skipped and the loop goes on to the remaining records; the table
\* holds one row per result_hash of the records.
C10_IdempotentReingestion ==
  [][ /\ run >= 2 => db' = db
      /\ (pc = "insert" /\ inserted + ins_skipped < Len(records)
            /\ unique_violation(db, records[inserted + ins_skipped + 1])) =>
           /\ db' = db
           /\ ins_skipped' = ins_skipped + 1
           /\ inserted' = inserted
           /\ pc' = "insert"
      /\ (pc = "insert" /\ pc' = "done") =>
           /\ inserted' + ins_skipped' = Len(records')
           /\ Hashes(db') = Hashes(records')
      /\ OnePerHash(db')
    ]_vars

\* The second run has ended with every insert skipped and the loop having gone
\* through all records.
C10_Witness ==
  /\ run = 2
  /\ pc = "done"
  /\ Len(records) = 2
  /\ ins_skipped = 2
  /\ inserted = 0
  /\ Len(db) >= 1

\* ------------------------------------------------------------ claims C11..C20
\* C11: a window opened at a line that starts with "CPU" contributes its rows
\* if and only if it parses to exactly five rows and its column list, with the
\* user column, equals the expected list; in every other case nothing is
\* appended, and in both cases the scan goes on with the next line.
C11_WindowAcceptedIffFiveRowsAndColumns ==
  [][(pc = "scan" /\ line_no' /= line_no) =>
       /\ pc' = "scan"
       /\ line_no' = line_no + 1
       /\ IF /\ window' /= None
             /\ ~Val(window').raised
             /\ Val(window').nrows = 5
             /\ Val(window').columns = expected_cols
          THEN /\ StartsWith(lines[line_no], <<"C", "P", "U">>)
               /\ dfs' = Append(dfs, Val(window'))
               /\ Val(window').at = line_no
          ELSE dfs' = dfs]_vars

\* A valid header with only four lines below it was parsed to four rows and
\* rejected, and the scan is at the next line.
C11_Witness ==
  /\ pc = "scan"
  /\ window /= None
  /\ ~Val(window).raised
  /\ Val(window).nrows = 4
  /\ Val(window).columns = expected_cols
  /\ lines[Val(window).at] = HeaderLine
  /\ Len(lines) = Val(window).at + 4
  /\ line_no = Val(window).at + 1
  /\ dfs = <<>>

\* C12: every row of an accepted table yields one record: a cell of BITRATE,
\* TIME, AVG_FPS, AVG_SPEED or AVG_WATTS that does not parse leaves its field
\* null and the record is appended.
C12_ParseFailureNullsOnlyTheField ==
  pc /= "row" =>
    /\ record /= None
    /\ \A f \in {"avg_speed", "avg_watts"} : parse_cells(row)[f] = None => Val(record)[f] = None

\* C13: rows are independent: when the loop over the rows of a window has
\* ended, every row that converts on its own is in the results, whatever the
\* other rows of the window are.
C13_BadRowDropsNoOtherRow ==
  pc = "window_done" =>
    \A k \in 1..Len(window_df) :
      extract_row_with_user(window_df[k]) /= None =>
        \E j \in 1..Len(results) : results[j] = Val(extract_row_with_user(window_df[k]))

\* C14: every record process_dataframe appends, and every stored row, has a
\* submitter_id that is not null: the login of the row's user column, which
\* extract_results sets to 'ghost' for a comment without a user.
C14_SubmitterIdNeverNull ==
  /\ \A k \in 1..Len(records) : records[k].submitter_id /= None
  /\ \A k \in 1..Len(db) : db[k].submitter_id /= None

\* The flags stored with a result, as a set.
FlagSet(res) ==
  IF res.data_quality_flags = None THEN {}
  ELSE {Val(res.data_quality_flags)[j] : j \in 1..Len(Val(res.data_quality_flags))}

\* avg_watts is a number below 3.0, fps_per_watt is a number above 400.
WattsBelowLimit(w) ==
  (w.kind = "inf" /\ w.neg) \/ (w.kind = "fin" /\ (w.neg \/ w.m < 3 * Pow10(w.k)))
EfficiencyAboveLimit(e) ==
  (e.kind = "inf" /\ ~e.neg) \/ (e.kind = "fin" /\ ~e.neg /\ e.m > 400 * Pow10(e.k))

\* C15: a flagged result carries exactly the flags whose own condition holds:
\* power_too_low iff avg_watts is non-null and below 3.0, efficiency_outlier iff
\* fps_per_watt is non-null and above 400, arrow_lake_power_issue iff the
\* architecture is 'Arrow Lake'; none of them depends on another, and no flag
\* is listed twice.
C15_FlagsExactlyWhenConditionHolds ==
  \A k \in 1..Len(results) :
    pc \in {"flag", "flagged"} /\ k < result_no =>
      /\ "power_too_low" \in FlagSet(results[k]) <=>
           results[k].avg_watts /= None /\ WattsBelowLimit(Val(results[k].avg_watts))
      /\ "efficiency_outlier" \in FlagSet(results[k]) <=>
           results[k].fps_per_watt /= None /\ EfficiencyAboveLimit(Val(results[k].fps_per_watt))
      /\ "arrow_lake_power_issue" \in FlagSet(results[k]) <=> results[k].architecture = Some("Arrow Lake")
      /\ FlagSet(results[k]) \subseteq {"power_too_low", "efficiency_outlier", "arrow_lake_power_issue"}
      /\ results[k].data_quality_flags /= None =>
           Len(Val(results[k].data_quality_flags)) = Cardinality(FlagSet(results[k]))

\* All three flags on one result with avg_watts 2.1, and in the same run a
\* result with null avg_watts that has the other two flags only.
C15_Witness ==
  /\ pc = "flagged"
  /\ Len(results) = 2
  /\ results[1].avg_watts = Some(Fin(FALSE, 21, 1))
  /\ FlagSet(results[1]) = {"power_too_low", "efficiency_outlier", "arrow_lake_power_issue"}
  /\ results[2].avg_watts = None
  /\ FlagSet(results[2]) = {"efficiency_outlier", "arrow_lake_power_issue"}

\* C16: flagging a result changes its data_quality_flags only; no result is
\* removed or added, results not yet reached are as they were, and a result
\* without flags stores null, never an empty list.
C16_OnlyFlagsFieldChanges ==
  [][pc = "flag" =>
       /\ Len(results') = Len(results)
       /\ \A k \in 1..Len(results) :
            /\ \A f \in DOMAIN results[k] \ {"data_quality_flags"} : results'[k][f] = results[k][f]
            /\ DOMAIN results'[k] = DOMAIN results[k]
            /\ k /= result_no => results'[k] = results[k]
       /\ result_no <= Len(results) =>
            /\ results'[result_no].data_quality_flags /= Some(<<>>)
            /\ results'[result_no].data_quality_flags = None <=>
                 /\ results[result_no].avg_watts = None \/ ~WattsBelowLimit(Val(results[result_no].avg_watts))
                 /\ results[result_no].fps_per_watt = None
                      \/ ~EfficiencyAboveLimit(Val(results[result_no].fps_per_watt))
                 /\ results[result_no].architecture /= Some("Arrow Lake")]_vars

\* A result that carried a flag of an earlier run and meets no condition now
\* has null flags and its avg_watts of 7.6.
C16_Witness ==
  /\ pc = "flagged"
  /\ Len(results) = 1
  /\ results[1].avg_watts = Some(Fin(FALSE, 76, 1))
  /\ results[1].fps_per_watt = Some(Fin(FALSE, 400, 0))
  /\ results[1].architecture = Some("Comet Lake")
  /\ results[1].data_quality_flags = None

\* C17: the cpu_generation of an emitted record is the generation of the rule
\* that classifies its label whenever a rule matches, and the numeric
\* extraction from the model string only when no rule matches.
C17_GenerationFromMatchedRule ==
  pc = "classified" /\ record /= None =>
    /\ (arch_info /= None /\ parsed.architecture = Some(Val(arch_info).architecture)) =>
         Val(record).cpu_generation = parsed.generation
    /\ arch_info = None => Val(record).cpu_generation = generation_of(cpu_model_of(Strip(row.CPU)))

\* Texts around a model token in a label.
EndsWith(s, suffix) == Len(suffix) <= Len(s) /\ SubSeq(s, Len(s) - Len(suffix) + 1, Len(s)) = suffix
TokenPrefixes == LabelPrefix \cup {<<"I", "n", "t", "e", "l", "(", "R", ")", " ", "C", "o", "r", "e", "(", "T", "M", ")", " ">>}
TokenTrailers == LabelTrailer \cup {<<" ", "C", "P", "U", " ", "@", " ", "3", ".", "8", "0", "G", "H", "z">>}
MatchesNoRule(text) == MigrateMatches(text) = {} /\ BackfillMatches(text) = {}

\* C18: a model token that a table classifies on its own is classified to the
\* same architecture by that table when it stands between texts that match no
\* rule.
C18_EmbeddedTokenClassifiedAlike ==
  pc = "classified" =>
    \A p \in TokenPrefixes, t \in TokenTrailers :
      \A l \in {Strip(row.CPU)} :
        (StartsWith(l, p) /\ EndsWith(l, t) /\ Len(p) + Len(t) < Len(l)
           /\ MatchesNoRule(p) /\ MatchesNoRule(t)) =>
          \A token \in {SubSeq(l, Len(p) + 1, Len(l) - Len(t))} :
            /\ lookup_architecture(token) /= None =>
                 arch_info /= None /\ Val(arch_info).architecture = Val(lookup_architecture(token)).architecture
            /\ parse_cpu(token).architecture /= None =>
                 parsed.architecture = parse_cpu(token).architecture

\* The rows a run of the migration stores from the rows of df, taken in the
\* given order, into an empty table.
RECURSIVE StoredFrom(_, _, _)
StoredFrom(todo, flag, stored) ==
  IF todo = <<>> THEN stored
  ELSE Bind(process_row(Head(todo), flag), LAMBDA r :
         StoredFrom(Tail(todo), flag,
                    IF r = None \/ unique_violation(stored, Val(r)) THEN stored ELSE Append(stored, Val(r))))
RowSet(stored) == {stored[k] : k \in 1..Len(stored)}

\* C19: the stored records after the first run are the same set, with all
\* their fields, for every order in which the rows of the submissions are
\* processed and inserted.
C19_StoredRecordsOrderIndependent ==
  pc = "done" /\ run = 1 =>
    \A order \in Orders(df) : RowSet(StoredFrom(order, include_github_user, <<>>)) = RowSet(db)

\* C20: a run with --dry-run never writes: no step of it changes the table or
\* commits, migrate-gist-data never reaches insert_records, backfill-submitter-id
\* never reaches backfill_submitter_ids, and backfill_architectures goes
\* through its rows with the table as it was.
C20_DryRunNeverWrites ==
  [][dry_run =>
       /\ db' = db
       /\ commits' = commits
       /\ commits = 0
       /\ pc' \notin {"insert", "submitter_rows"}
       /\ inserted' = 0 /\ ins_skipped' = 0
       /\ script = "backfill-submitter-id" => updated' = 0 /\ not_matched' = 0 /\ hash_to_user' = <<>>]_vars

\* A dry run of backfill_architectures has ended after a row it would have
\* updated, with that row still without architecture and nothing committed.
C20_Witness ==
  /\ dry_run
  /\ script = "backfill-architectures"
  /\ pc = "done"
  /\ updated >= 1
  /\ commits = 0
  /\ \E k \in 1..Len(rows) : db[rows[k]].architecture = None /\ parse_cpu(db[rows[k]].cpu_raw).architecture /= None

\* ------------------------------------------------------------ claims C21..C29
\* C21: a step of backfill_architectures changes a stored row only when its
\* architecture is null or empty and a rule matches its cpu_raw; the row then
\* has the architecture of the first matching rule and that rule's generation
\* when it is not null, its own cpu_generation otherwise, and every other field
\* as before; when a run without --dry-run ends, no row with a matching cpu_raw
\* is left without architecture.
C21_BackfillArchitecturesFrame ==
  /\ [](script = "backfill-architectures" /\ pc = "done" /\ ~dry_run =>
          \A k \in 1..Len(db) :
            db[k].architecture \in {None, Some("")} => BackfillMatches(db[k].cpu_raw) = {})
  /\ [][script = "backfill-architectures" =>
          /\ Len(db') = Len(db)
          /\ \A k \in 1..Len(db) :
               db'[k] /= db[k] =>
                 /\ db[k].architecture \in {None, Some("")}
                 /\ BackfillMatches(db[k].cpu_raw) /= {}
                 /\ \E rule \in {BACKFILL_CPU_PATTERNS[Min(BackfillMatches(db[k].cpu_raw))]} :
                      db'[k] = [db[k] EXCEPT !.architecture = Some(rule.architecture),
                                             !.cpu_generation = IF rule.generation /= None
                                                                THEN rule.generation ELSE db[k].cpu_generation]]_vars

\* A run without --dry-run has ended on a table with a row that no rule
\* matches, still without architecture, and a row that got its architecture
\* from a rule without generation and kept its cpu_generation.
C21_Witness ==
  /\ script = "backfill-architectures"
  /\ pc = "done"
  /\ ~dry_run
  /\ updated = 1
  /\ not_matched = 1
  /\ \E j, k \in 1..Len(db) :
       /\ db[j].architecture = Some("Arc Alchemist")
       /\ db[j].cpu_generation = Some(1)
       /\ db[k].architecture = None
       /\ BackfillMatches(db[k].cpu_raw) = {}

\* C22: a step of backfill_submitter_ids changes a stored row only when its
\* submitter_id is null or empty and its result_hash is the hash of a gist
\* row; the row then has the username of a gist row with that hash as its
\* submitter_id and every other field as before; when the run ends, no row
\* whose hash is the hash of a gist row is left without submitter_id.
C22_BackfillSubmitterIdsFrame ==
  /\ [](script = "backfill-submitter-id" /\ pc = "done" /\ ~dry_run /\ results /= <<>> =>
          \A k \in 1..Len(db) :
            db[k].submitter_id \in {None, Some("")} =>
              \A j \in 1..Len(results) : backfill_generate_result_hash(results[j]) /= db[k].result_hash)
  /\ [][script = "backfill-submitter-id" =>
          /\ Len(db') = Len(db)
          /\ \A k \in 1..Len(db) :
               db'[k] /= db[k] =>
                 /\ db[k].submitter_id \in {None, Some("")}
                 /\ \E j \in 1..Len(results) :
                      /\ backfill_generate_result_hash(results[j]) = db[k].result_hash
                      /\ db'[k] = [db[k] EXCEPT !.submitter_id = Some(results[j].username)]]_vars

\* The run has ended: a row whose hash two gist rows of different users have
\* got the username of one of them, a row with no matching hash is still
\* without submitter_id.
C22_Witness ==
  /\ script = "backfill-submitter-id"
  /\ pc = "done"
  /\ Len(results) = 2
  /\ results[1].username /= results[2].username
  /\ backfill_generate_result_hash(results[1]) = backfill_generate_result_hash(results[2])
  /\ updated = 1
  /\ not_matched = 1
  /\ \E j, k \in 1..Len(db) :
       /\ db[j].result_hash = backfill_generate_result_hash(results[1])
       /\ db[j].submitter_id = Some(results[2].username)
       /\ db[k].submitter_id \in {None, Some("")}

\* C23: every label that lookup_architecture of migrate-gist-data classifies is
\* classified to the same architecture by parse_cpu of backfill-architectures.
C23_MigrateTableWithinBackfillTable ==
  pc = "classified" /\ arch_info /= None => parsed.architecture = Some(Val(arch_info).architecture)

\* The positions of model at which four digits begin.
DigitRuns(model) ==
  {p \in 1..Len(model) : p + 3 <= Len(model) /\ AllDigits(SubSeq(model, p, p + 3))}

\* The generation a model has by the fallback rule: none when there is no model
\* or no four digits in a row in it; otherwise the first digit of the leftmost
\* four digits, or the first two when a fifth digit follows them; and those
\* digits stand in the label.
FallbackGeneration(model, generation, label) ==
  /\ generation = None <=> (IF model = None THEN TRUE ELSE DigitRuns(Val(model)) = {})
  /\ generation /= None =>
       \E p \in DigitRuns(Val(model)) :
         /\ \A q \in DigitRuns(Val(model)) : p <= q
         /\ Val(generation) =
              IF p + 4 <= Len(Val(model)) /\ Val(model)[p + 4] \in Digit
              THEN 10 * DigitVal(Val(model)[p]) + DigitVal(Val(model)[p + 1])
              ELSE DigitVal(Val(model)[p])
         /\ \E q \in 1..Len(label) : OccursAt(label, SubSeq(Val(model), p, p + 3), q)

\* C24: the generation of a row, in process_row of migrate-gist-data and in
\* munging of analysis.py, is the first run of four to five digits of the model
\* without its last three digits: one digit of a four-digit run, two of a
\* five-digit run, null exactly when there is no model or no four digits in a
\* row, and always digits of the label.
C24_GenerationFallback ==
  pc = "munged" =>
    /\ record /= None =>
         FallbackGeneration(Val(record).cpu_model, Val(record).cpu_generation, row.CPU)
    /\ FallbackGeneration(munged.model, munged.generation, row.CPU)
    /\ record /= None /\ row.CPU = <<"i", "5", "-", "8", "5", "0", "0">> =>
         Val(record).cpu_generation = Some(8) /\ munged.generation = Some(8)
    /\ record /= None /\ row.CPU = <<"i", "7", "-", "1", "0", "7", "0", "0", "K">> =>
         Val(record).cpu_generation = Some(10) /\ munged.generation = Some(10)

\* A label with a five-digit model number has got generation 10 in both scripts.
C24_Witness ==
  /\ pc = "munged"
  /\ row.CPU = <<"I", "n", "t", "e", "l", "(", "R", ")", " ", "C", "o", "r", "e", "(", "T", "M", ")", " ", "i", "7", "-", "1", "0", "7", "0", "0", "K", " ", "C", "P", "U", " ", "@", " ", "3", ".", "8", "0", "G", "H", "z">>
  /\ record /= None
  /\ Val(record).cpu_model = Some(<<"1", "0", "7", "0", "0", "K">>)
  /\ Val(record).cpu_generation = Some(10)
  /\ munged.model = Some(<<"1", "0", "7", "0", "0", "K", " ", "C", "P", "U", " ", "@", " ", "3", ".", "8", "0", "G", "H", "z">>)
  /\ munged.generation = Some(10)

\* The accepted windows of the scan so far, in the order of their header lines,
\* each with five rows and the expected columns.
AcceptedWindowsInOrder ==
  /\ \A j \in 1..Len(dfs) : window_accepted(dfs[j]) /\ StartsWith(lines[dfs[j].at], <<"C", "P", "U">>)
  /\ \A j, k \in 1..Len(dfs) : j < k => dfs[j].at < dfs[k].at

\* C25: extract_results returns the rows of the accepted windows in the order
\* of their header lines, and returns (an empty result) when no window was
\* accepted: it never fails.
C25_ExtractResultsNeverFails ==
  /\ AcceptedWindowsInOrder
  /\ pc /= "raised"

\* C26: two records that differ in one or more of the six hash fields have
\* different hash inputs, also when a text field holds a "|".
C26_HashInputInjective ==
  \A j, k \in 1..Len(records) :
    DifferingHashFields(records[j], records[k]) /= {} =>
      hash_input(records[j]) /= hash_input(records[k])

\* C27: when a rule of backfill-architectures gives a label a generation and
\* parse_cpu_info of migrate-gist-data extracts one from its digits, the two
\* are the same number.
C27_RuleGenerationIsExtractedGeneration ==
  pc = "classified" /\ record /= None /\ parsed.generation /= None
      /\ Val(record).cpu_generation /= None =>
    parsed.generation = Val(record).cpu_generation

\* C28: every run of backfill_architectures selects the rows without
\* architecture and ends with updated + not_matched equal to their number; a
\* second run after a run without --dry-run selects only rows that no rule
\* matches, counts no update and leaves every row as it was.
C28_BackfillArchitecturesIdempotent ==
  /\ [](script = "backfill-architectures" /\ pc = "done" => updated + not_matched = Len(rows))
  /\ [][script = "backfill-architectures" /\ pc = "architectures" /\ pc' = "architecture_rows" =>
          /\ {rows'[j] : j \in 1..Len(rows')} = {k \in 1..Len(db) : db[k].architecture \in {None, Some("")}}
          /\ \A j, k \in 1..Len(rows') : rows'[j] = rows'[k] => j = k]_vars
  /\ [][script = "backfill-architectures" /\ run' = 2 /\ ~dry_run =>
          /\ db' = db
          /\ updated' = 0
          /\ \A j \in 1..Len(rows') : BackfillMatches(db[rows'[j]].cpu_raw) = {}]_vars

\* The second run without --dry-run has ended: it selected the one row that no
\* rule matches and updated nothing, next to a row the first run classified.
C28_Witness ==
  /\ script = "backfill-architectures"
  /\ pc = "done"
  /\ run = 2
  /\ ~dry_run
  /\ commits = 2
  /\ Len(rows) = 1
  /\ updated = 0
  /\ not_matched = 1
  /\ \E k \in 1..Len(db) :
       /\ db[k].cpu_raw = <<"i", "7", "-", "1", "0", "3", "5", " ", "A", "r", "c", " ", "A", "3", "8", "0">>
       /\ db[k].architecture = Some("Arc Alchemist")

\* The pages 1..k one after the other.
RECURSIVE PagesUpTo(_)
PagesUpTo(k) == IF k = 0 THEN <<>> ELSE PagesUpTo(k - 1) \o PageOf(k, gist_pages[k])

\* C29: get_comments requests the pages 1, 2, 3, ... in this order, requests
\* no page after a page shorter than the page size, and returns the pages up
\* to the first short page one after the other, every comment once; when some
\* page is short, the loop ends.
C29_GetCommentsPagination ==
  /\ [](/\ \A k \in 1..Len(requested) : requested[k] = k
        /\ \A k \in 1..Len(requested) - 1 : gist_pages[k] = per_page(script)
        /\ (pc = "returned" /\ requested /= <<>>) =>
             /\ gist_pages[Len(requested)] < per_page(script)
             /\ comments = PagesUpTo(Len(requested))
             /\ \A a, b \in 1..Len(comments) : comments[a] = comments[b] => a = b)
  /\ [][pc = "returned" => requested' = requested]_vars
  /\ (pc = "get_comments" /\ \E k \in 1..MaxPages : gist_pages[k] < per_page(script))
       ~> (pc \in {"returned", "raised"})

\* migrate-gist-data has returned after a full page and a page of 99: two
\* requests and 199 comments.
C29_Witness ==
  /\ script = "migrate-gist-data"
  /\ pc = "returned"
  /\ requested = <<1, 2>>
  /\ gist_pages[1] = PER_PAGE
  /\ gist_pages[2] = PER_PAGE - 1
  /\ Len(comments) = 2 * PER_PAGE - 1
  /\ comments[PER_PAGE + 1] = [page |-> 2, no |-> 1]
====
